---- MODULE Spec2Model ----
(***************************************************************************)
(* Ordered TTS playback pipeline of stellaris-tts-proxy.                   *)
(*                                                                         *)
(*   ProcessTTSRequest (producer threads, tts_processor.cpp)               *)
(*     -> PlaybackQueue::AddRequest          (playback_queue.cpp)          *)
(*     -> FetchThreadPool::Enqueue           (fetch_thread_pool.cpp)       *)
(*   FetchThreadPool::WorkerLoop runs FetchAndEnqueueForPlayback, which    *)
(*     ends in PlaybackQueue::MarkReady / MarkFailed                       *)
(*   PlaybackCoordinator (one thread) loops WaitForNextReady, play, Remove *)
(*   ShutdownParallelSystem signals the queue and the pool.                *)
(*                                                                         *)
(* Every critical section that runs under one lock_guard is one action.    *)
(* WaitForNextReady is split where the code reads the lock-free atomic     *)
(* shutdownRequested, because PlaybackQueue::Shutdown writes that flag and *)
(* notifies without taking queueMutex.                                     *)
(***************************************************************************)
EXTENDS Naturals, Integers, Sequences, FiniteSets, TLC

\* ---------------------------------------------------------------- bounds
MaxRequests == 2        \* ProcessTTSRequest calls in one run
NumProducers == 2       \* threads that call ProcessTTSRequest (hkSpeak callers)
MaxThreads == 2         \* FetchThreadPool::maxThreads, scaled down from 4
MaxPendingTasks == 1    \* FetchThreadPool::maxPendingTasks, scaled down from 20
MaxCapacity == 2        \* AudioCache::maxSize, scaled down from 50
MaxKeyLen == 1          \* length of the strings handed to GenerateCacheKey
MaxPoolTasks == 5       \* Enqueue calls made on a FetchThreadPool taken alone
MaxTextLen == 2         \* length of the texts handed to FetchAndEnqueueForPlayback

Producers == 1..NumProducers
Workers == 1..MaxThreads
Texts == {"A"}          \* utterance texts handed to ProcessTTSRequest; "" is the empty string

VARIABLES
    \* PlaybackQueue
    pendingItems,        \* std::map<uint64_t, AudioItem>
    nextSequenceNumber,  \* std::atomic<uint64_t>, starts at 1
    nextToPlay,          \* std::atomic<uint64_t>, starts at 1
    shutdownRequested,   \* std::atomic<bool>
    queueMutex,          \* "free", or "coordinator" while WaitForNextReady holds it across steps
    \* FetchThreadPool
    tasks,               \* std::queue<std::function<void()>>: the captured (seq, text)
    stop,                \* std::atomic<bool>
    initialized,         \* std::atomic<bool>
    created,             \* worker threads Enqueue has constructed so far (history)
    wpc,                 \* per worker: "none", "ready", "waiting", "running", "exited"
    wtask,               \* per worker: the task it popped
    \* tts_processor.cpp globals
    coordRunning,        \* g_playbackCoordinatorRunning
    coordInitialized,    \* g_playbackCoordinatorInitialized
    cpc,                 \* position of the PlaybackCoordinator thread
    item,                \* the coordinator's local AudioItem
    \* callers
    ppc,                 \* per producer: position inside ProcessTTSRequest
    pseq,                \* per producer: seq returned by AddRequest
    ptext,               \* per producer: text argument
    spc,                 \* position of the thread running ShutdownParallelSystem
    \* observation (history) variables
    allocated,           \* sequence numbers in the order AddRequest returned them
    returned,            \* sequence numbers in the order WaitForNextReady returned them
    played,              \* sequence numbers for which PlayAudioFromMemory was invoked
    resolved,            \* sequence numbers in the order MarkReady / MarkFailed found them
    rejected,            \* sequence numbers whose Enqueue returned false
    executed,            \* sequence numbers whose task a worker has taken from the queue
    faulted,             \* sequence numbers whose task threw into the catch handlers of WorkerLoop
    atStop               \* sequence numbers whose task was queued when Shutdown stored stop
                         \* and is still queued

queueVars == <<pendingItems, nextSequenceNumber, nextToPlay, shutdownRequested, queueMutex>>
poolVars == <<tasks, stop, initialized, created, wpc, wtask>>
coordVars == <<coordRunning, coordInitialized, cpc, item>>
producerVars == <<ppc, pseq, ptext>>
histVars == <<allocated, returned, played, resolved, rejected, executed, faulted, atStop>>
pipelineVars == <<queueVars, poolVars, coordVars, producerVars, spc, histVars>>

VARIABLES
    \* AudioCache
    cache,               \* std::unordered_map<std::string, CacheEntry>: key -> [data, timestamp]
    maxSize,             \* size_t maxSize
    disk,                \* the files of the cache directory: key -> file content
    crashed,             \* the process has died in cache.erase(cache.end())
    \* callers of the cache
    apc,                 \* per caller: "idle", or the position inside Get
    akey,                \* per caller: cacheKey
    adata,               \* per caller: outData while it is inside Get
    ares,                \* the last return of Get: [key, found, data]
    lastPut              \* history: key -> the bytes of the last Put of the key, for the keys
                         \* that have not been evicted since

cacheVars == <<cache, maxSize, disk, crashed, apc, akey, adata, ares, lastPut>>

VARIABLES
    \* GenerateCacheKey
    keyCalls             \* the calls of GenerateCacheKey made: their arguments, the string
                         \* that was hashed and the key returned

VARIABLES
    \* FetchAndEnqueueForPlayback, taken alone
    ftask,               \* the run in progress: its position, its text and locals
    fcache               \* what the audio cache holds: the most recent Put

fetchVars == <<ftask, fcache>>

VARIABLES
    \* PlaybackQueue, taken alone
    qcall                \* the call of a PlaybackQueue method made last

VARIABLES
    \* playback and cancellation
    g_isPlaying,         \* std::atomic<bool>
    g_shouldCancel,      \* std::atomic<bool>
    hpc,                 \* HotkeyWindowProc: "idle", or "store" once it has read g_isPlaying
    play,                \* the coordinator in its loop and in PlayAudioFromMemory: its
                         \* position and the polls of the wait loop made so far
    playlog              \* history: started, the sequence numbers PlayAudioFromMemory was
                         \* called for, in order; cancelled, those whose wait loop ended
                         \* on g_shouldCancel; setDuring, those that were playing when
                         \* the flag was set; failed, those marked failed; asked, those
                         \* with g_isPlaying set and the wait loop not ended when the
                         \* flag was set

playVars == <<g_isPlaying, g_shouldCancel, hpc, play, playlog>>

VARIABLES
    \* the mutexes of the pipeline and the threads that take them
    held,                \* thread -> the mutexes it owns
    todo                 \* thread -> the lock operations left on the code path it runs

lockVars == <<held, todo>>

VARIABLES
    \* FetchThreadPool, taken alone
    poolLog              \* history: next, the number of the next Enqueue call; accepted,
                         \* the tasks Enqueue pushed, in order; taken, the tasks the
                         \* workers popped, in order

VARIABLES
    \* PlayAudioFromMemory from the play command on, taken alone
    waitLoop               \* pc; duration, the DWORD duration; elapsed, GetTickCount() - start
                         \* as the thread last saw it; exit, what ended the wait loop

VARIABLES
    \* TTSThreadPool, taken alone
    ttsPool              \* initialized, stop, taskRunning; tasks, the number of tasks in
                         \* the queue; wpc, the worker in WorkerLoop; spc, the thread in
                         \* Shutdown or ShutdownFast; enqueued, the Enqueue calls made

VARIABLES
    \* PlaybackQueue, taken alone
    qlog                 \* history, by sequence number of an entry of the map: text, the
                         \* text passed to AddRequest; audio and path, the audio of the
                         \* last MarkReady for the number and the last path one passed

aloneVars == <<poolLog, waitLoop, ttsPool, qlog>>

vars == <<pipelineVars, cacheVars, keyCalls, fetchVars, qcall, playVars, lockVars, aloneVars>>

\* ------------------------------------------------------------ AudioItem
NoAudio == <<>>
Audio(text) == <<text>>              \* the bytes the service returns for a text
CachePath(text) == <<"path", text>>  \* AudioCache::GetCachedFilePath
NullPath == <<"nullptr">>            \* const std::string* cachePath = nullptr

\* AudioItem::AudioItem()
NoItem == [sequenceNumber |-> 0, text |-> "", audioData |-> NoAudio,
           cachePath |-> <<>>, isReady |-> FALSE, failed |-> FALSE]

NoTask == [seq |-> 0, text |-> ""]

\* ------------------------------------------------- PlaybackQueue, pure parts
\* an AddRequest that hands out the counter without advancing it
FetchAdd_NoIncrement(n) == n

\* nextSequenceNumber.fetch_add(1): the stored value after the call
FetchAdd(n) == n + 1

\* AddRequest: pendingItems[seq] = item
AddRequestItems(items, seq, text) ==
    [k \in DOMAIN items \cup {seq} |->
        IF k = seq
        THEN [NoItem EXCEPT !.sequenceNumber = seq, !.text = text]
        ELSE items[k]]

\* a MarkReady that resolves the oldest entry of the map, whatever number it is given
MarkReadyItems_Oldest(items, seq, audio, path) ==
    IF seq \in DOMAIN items
    THEN LET first == CHOOSE k \in DOMAIN items : \A j \in DOMAIN items : k <= j IN
         [items EXCEPT ![first].audioData = audio,
                       ![first].cachePath = IF path = NullPath THEN @ ELSE path,
                       ![first].isReady = TRUE]
    ELSE items

\* MarkReady: found entries get the audio, the path if one is passed, and isReady
MarkReadyItems(items, seq, audio, path) ==
    IF seq \in DOMAIN items
    THEN [items EXCEPT ![seq].audioData = audio,
                       ![seq].cachePath = IF path = NullPath THEN @ ELSE path,
                       ![seq].isReady = TRUE]
    ELSE items

\* a MarkFailed that sets failed and leaves isReady alone
MarkFailedItems_NotReady(items, seq) ==
    IF seq \in DOMAIN items
    THEN [items EXCEPT ![seq].failed = TRUE]
    ELSE items

\* a MarkFailed that writes through pendingItems[seq], creating the entry it misses
MarkFailedItems_Creates(items, seq) ==
    [k \in DOMAIN items \cup {seq} |->
        IF k = seq
        THEN [(IF seq \in DOMAIN items THEN items[seq] ELSE NoItem)
                 EXCEPT !.failed = TRUE, !.isReady = TRUE]
        ELSE items[k]]

\* MarkFailed: found entries get failed and isReady
MarkFailedItems(items, seq) ==
    IF seq \in DOMAIN items
    THEN [items EXCEPT ![seq].failed = TRUE, ![seq].isReady = TRUE]
    ELSE items

\* a WaitForNextReady that serves whichever entry is ready first (the lowest ready key)
ExpectedSeq_FirstReady(items, ntp) ==
    LET ready == {k \in DOMAIN items : items[k].isReady} IN
    IF ready = {} THEN ntp ELSE CHOOSE k \in ready : \A j \in ready : k <= j

\* WaitForNextReady: the key it looks up, expectedSeq = nextToPlay.load()
ExpectedSeq(items, ntp) == ntp

\* a WaitForNextReady that does not test isReady
NextIsReady_NoReadyTest(items, ntp) == ExpectedSeq(items, ntp) \in DOMAIN items

\* WaitForNextReady: the entry exists and is ready
NextIsReady(items, ntp) ==
    /\ ExpectedSeq(items, ntp) \in DOMAIN items
    /\ items[ExpectedSeq(items, ntp)].isReady

\* a WaitForNextReady that leaves the entry it hands out in the map
EraseItem_Keep(items, seq) == items

\* pendingItems.erase(it)
EraseItem(items, seq) == [k \in DOMAIN items \ {seq} |-> items[k]]

\* a Remove that advances the pointer past the next request too
RemoveNextToPlay_SkipOne(seq, currentNext) ==
    IF seq = currentNext THEN seq + 2 ELSE currentNext

\* Remove: the new value of nextToPlay
RemoveNextToPlay(seq, currentNext) ==
    IF seq = currentNext THEN seq + 1 ELSE currentNext

\* Remove: the stale-entry sweep, erases every key < seq
RemoveItems(items, seq) == [k \in {j \in DOMAIN items : ~(j < seq)} |-> items[k]]

\* cv.notify_all() of PlaybackQueue::cv; the coordinator is the only waiter
NotifyQueue(pc) == IF pc = "w_wait" THEN "w_lock" ELSE pc

\* ---------------------------------------------------- FetchThreadPool, pure
\* an Enqueue without the size check
QueueFull_Never(q) == FALSE

\* an Enqueue that rejects one task too late
QueueFull_OffByOne(q) == Len(q) > MaxPendingTasks

\* Enqueue: tasks.size() >= maxPendingTasks
QueueFull(q) == Len(q) >= MaxPendingTasks

WaitingWorkers == {w \in Workers : wpc[w] = "waiting"}

\* cv.notify_one(): wakes one waiter, any of them; nothing if none waits
NotifyOne(w) ==
    IF WaitingWorkers = {} THEN wpc ELSE [wpc EXCEPT ![w] = "ready"]

\* cv.notify_all()
NotifyAllWorkers == [w \in Workers |-> IF wpc[w] = "waiting" THEN "ready" ELSE wpc[w]]

\* ------------------------------------------------------- AudioCache, pure
\* std::string values are sequences of characters
Server == <<"s">>        \* g_config.server
Voice == <<"v">>         \* g_config.voice
CacheTexts == {<<"a">>, <<"b">>, <<"c">>}    \* texts handed to Get / Put
\* audio bytes handed to Put: the server answers one of the texts in two ways
Payloads(text) == IF text = <<"a">> THEN {<<"x">>, <<"y">>} ELSE {<<"x">>}
CacheCallers == {"w1", "w2"}                 \* threads inside FetchAndEnqueueForPlayback
Capacities == 0..MaxCapacity                 \* values handed to SetMaxSize

\* GenerateCacheKey: combined = text + "|" + server + "|" + voice
Combined(text, server, voice) == text \o <<"|">> \o server \o <<"|">> \o voice

\* the SHA-256 of the input as hex; two inputs have one digest only if they are equal
Sha256Hex(input) == <<"sha256">> \o input

\* GenerateCacheKey
GenerateCacheKey(text, server, voice) == Sha256Hex(Combined(text, server, voice))

CacheKeys == {GenerateCacheKey(t, Server, Voice) : t \in CacheTexts}

\* the strings a caller may hand to GenerateCacheKey as text, server or voice
KeyAlphabet == {"a", "|"}
KeyStrings == UNION {[1..n -> KeyAlphabet] : n \in 0..MaxKeyLen}
KeyCalls == {1, 2}

\* a call of GenerateCacheKey that has not been made
NoCall == [text |-> <<>>, server |-> <<>>, voice |-> <<>>, combined |-> <<>>, key |-> <<>>]

\* no Get has returned yet
NoReturn == [key |-> <<>>, found |-> FALSE, data |-> NoAudio]

\* an eviction loop that keeps the entry with the latest timestamp
Oldest_Newest(c) == {k \in DOMAIN c : \A j \in DOMAIN c : ~(c[j].timestamp > c[k].timestamp)}

\* the eviction loop: the entries no other entry is older than; the loop keeps the
\* first of them in the iteration order of the unordered_map
Oldest(c) == {k \in DOMAIN c : \A j \in DOMAIN c : ~(c[j].timestamp < c[k].timestamp)}

\* steady_clock::now() under cacheMutex: later than every timestamp in the map
Now(c) == Cardinality(DOMAIN c) + 1

\* timestamps are only ever compared with each other: the map is kept with each
\* timestamp replaced by its rank among those stored
Rebase(c) ==
    [k \in DOMAIN c |->
        [data |-> c[k].data,
         timestamp |-> Cardinality({j \in DOMAIN c : c[j].timestamp <= c[k].timestamp})]]

\* if (cache.size() >= maxSize)
CacheFull(c, max) == Cardinality(DOMAIN c) >= max

\* cache.erase(oldest)
EraseEntry(c, k) == [j \in DOMAIN c \ {k} |-> c[j]]

\* cache[cacheKey] = entry
StoreEntry(c, k, data, now) ==
    [j \in DOMAIN c \cup {k} |-> IF j = k THEN [data |-> data, timestamp |-> now] ELSE c[j]]

\* the eviction block followed by the store, with the victim the loop found
EvictAndStore(c, max, victim, k, data, now) ==
    StoreEntry(IF CacheFull(c, max) THEN EraseEntry(c, victim) ELSE c, k, data, now)

\* what SaveToDisk returns: true ("saved"), or false with the disk cache disabled or
\* CreateFileA failing ("nofile")
SaveOutcomes == {"saved", "nofile"}

\* SaveToDisk: the files afterwards
SaveToDisk(d, k, data, outcome) ==
    IF outcome = "saved"
    THEN [j \in DOMAIN d \cup {k} |-> IF j = k THEN data ELSE d[j]]
    ELSE d

\* history: the eviction block forgets the Put of the entry it erases
TrackEvict(lp, c, max, victim) ==
    [k \in DOMAIN lp \ (IF CacheFull(c, max) THEN {victim} ELSE {}) |-> lp[k]]

\* history: a Put of key k with these bytes
TrackPut(lp, k, data) == [j \in DOMAIN lp \cup {k} |-> IF j = k THEN data ELSE lp[j]]

\* ------------------------------------------- FetchAndEnqueueForPlayback
\* A text is a sequence of characters: "a" stands for any character but NUL.
NUL == "0"
FetchChars == {"a", NUL}
FetchTexts == UNION {[1..n -> FetchChars] : n \in 0..MaxTextLen}

\* SanitizeText's MAX_LENGTH (5000), scaled down so that a text can exceed it
MAX_LENGTH == MaxTextLen - 1

\* text.erase(std::remove(text.begin(), text.end(), '\0'), text.end())
RECURSIVE EraseNul(_)
EraseNul(text) ==
    IF text = <<>> THEN <<>>
    ELSE IF Head(text) = NUL THEN EraseNul(Tail(text))
         ELSE <<Head(text)>> \o EraseNul(Tail(text))

\* if (text.length() > MAX_LENGTH) text = text.substr(0, MAX_LENGTH)
Truncate(text) == IF Len(text) > MAX_LENGTH THEN SubSeq(text, 1, MAX_LENGTH) ELSE text

\* SanitizeText(std::string& text): what it leaves in text; it returns
\* !text.empty()
SanitizedText(text) == Truncate(EraseNul(text))

\* FetchTTSAudio(text) is FetchTTSAudioWithRetry(text, 3)
DefaultRetries == 3

\* a backoff that starts at the base delay: 500 * 2^(attempt - 1)
DelayMs_FromBase(attempt) == 500 * (2 ^ (attempt - 1))

\* Sleep(500 * (1 << attempt)) before attempt number attempt > 0; the product
\* stays far below 2^31 for the attempts a budget of 3 allows
DelayMs(attempt) == 500 * (2 ^ attempt)

\* the status codes HttpQueryInfoA may leave in statusCode; 0 is its initial
\* value, kept when the query fails
StatusCodes == {0, 200, 302, 399, 400, 404, 499, 500}

\* if (statusCode >= 400 && statusCode < 500) break;
IsClientError(statusCode) == statusCode >= 400 /\ statusCode < 500

\* the audio the service holds for a text, in chunks of the read buffer
ServerBody(text) == <<text, text>>

Prefixes(body) == {SubSeq(body, 1, n) : n \in 0..Len(body)}

\* One attempt of the retry loop, as the network decides it:
\*   "nosend"    InternetOpenA, InternetCrackUrlA, InternetConnectA,
\*               HttpOpenRequestA or HttpSendRequestA failed
\*   "response"  a response came with this status code; for 200, read is what
\*               InternetReadFile delivered before it returned FALSE (broken)
\*               or reported the end of the body
AttemptOutcomes(text) ==
    {[kind |-> "nosend", code |-> 0, read |-> NoAudio, broken |-> FALSE]}
    \cup {[kind |-> "response", code |-> c, read |-> NoAudio, broken |-> FALSE] :
            c \in StatusCodes \ {200}}
    \cup {[kind |-> "response", code |-> 200, read |-> ServerBody(text), broken |-> FALSE],
          [kind |-> "response", code |-> 200, read |-> NoAudio, broken |-> FALSE]}
    \cup {[kind |-> "response", code |-> 200, read |-> r, broken |-> TRUE] :
            r \in Prefixes(ServerBody(text)) \ {ServerBody(text)}}

\* what the loop body does with an attempt: "continue", "break" or "return"
AttemptEnds(o) ==
    IF o.kind = "nosend" THEN "continue"
    ELSE IF o.code # 200
         THEN IF IsClientError(o.code) THEN "break" ELSE "continue"
         ELSE "return"

NoMark == [kind |-> "none", audio |-> NoAudio]
NoFetch == [pc |-> "idle", text |-> <<>>, sanitizedText |-> <<>>, attempt |-> 0,
           outcomes |-> <<>>, slept |-> <<>>, audioData |-> NoAudio,
           hit |-> FALSE, mark |-> NoMark]
NoEntry == [text |-> <<>>, data |-> NoAudio]

\* ------------------------------------------------------------- mutexes
\* the four locks of the pipeline
PipelineLocks == {"queueMutex", "poolMutex", "cacheMutex", "g_audioMutex"}

\* g_playbackCoordinatorMutex guards the start of the coordinator thread
Mutexes == PipelineLocks \cup {"g_playbackCoordinatorMutex"}

\* a thread that calls ProcessTTSRequest, two FetchThreadPool workers, the
\* PlaybackCoordinator thread and the thread that runs ShutdownParallelSystem
LockThreads == {"producer", "worker1", "worker2", "coordinator", "shutdown"}

Lock(m) == [op |-> "lock", m |-> m]
Unlock(m) == [op |-> "unlock", m |-> m]
CvWait(m) == [op |-> "wait", m |-> m]

\* a block under std::lock_guard<std::mutex> lock(m) that calls nothing that locks
Section(m) == <<Lock(m), Unlock(m)>>

\* a block under std::unique_lock that goes through cv.wait(lock): the wait gives
\* the mutex up and takes it again when it wakes
WaitingSection(m) == <<Lock(m), CvWait(m), Lock(m), Unlock(m)>>

\* ProcessTTSRequest: the start of the coordinator on the first call, AddRequest,
\* Enqueue (with the startup block on the first call), MarkFailed on a rejection
ProducerPaths ==
    {first \o Section("queueMutex") \o startup \o Section("poolMutex") \o onReject :
        first \in {<<>>, Section("g_playbackCoordinatorMutex")},
        startup \in {<<>>, Section("poolMutex")},
        onReject \in {<<>>, Section("queueMutex")}}

\* a Put that reports to the queue before it lets go of cacheMutex
PutPath_MarksInside == <<Lock("cacheMutex")>> \o Section("queueMutex") \o <<Unlock("cacheMutex")>>

\* AudioCache::Put, whole under cacheMutex, SaveToDisk included
PutPath == Section("cacheMutex")

\* FetchAndEnqueueForPlayback: Get (the lookup; after a disk hit the promotion), then
\* MarkReady on a hit, MarkFailed when the text sanitizes to nothing or the fetch
\* fails, Put and MarkReady when the fetch succeeds
TaskPaths ==
    {Section("cacheMutex") \o Section("queueMutex"),
     Section("cacheMutex") \o Section("cacheMutex") \o Section("queueMutex"),
     Section("cacheMutex") \o PutPath \o Section("queueMutex")}

\* WorkerLoop: the block that waits for a task and pops it, then task() outside it;
\* or the break on stop
WorkerPaths ==
    {pop \o task : pop \in {Section("poolMutex"), WaitingSection("poolMutex")},
                   task \in TaskPaths \cup {<<>>}}

\* PlaybackCoordinator: WaitForNextReady; then the return on shutdown, Remove of a
\* failed item, or PlayAudioFromMemory under g_audioMutex and Remove
CoordinatorPaths ==
    {wait \o rest : wait \in {Section("queueMutex"), WaitingSection("queueMutex")},
                    rest \in {<<>>, Section("queueMutex"),
                              Section("g_audioMutex") \o Section("queueMutex")}}

\* ShutdownParallelSystem: PlaybackQueue::Shutdown takes no lock,
\* FetchThreadPool::Shutdown stores stop under poolMutex
ShutdownPaths == {Section("poolMutex")}

LockPaths(t) ==
    CASE t = "producer" -> ProducerPaths
      [] t \in {"worker1", "worker2"} -> WorkerPaths
      [] t = "coordinator" -> CoordinatorPaths
      [] t = "shutdown" -> ShutdownPaths

\* ------------------------------------------------- PlaybackQueue, alone
NoQueueCall == [op |-> "none", seq |-> 0, audio |-> NoAudio]

\* ---------------------------------------------------------------- Init
\* TTSThreadPool g_ttsThreadPool: constructed, no thread yet
NewTtsPool ==
    [initialized |-> FALSE, stop |-> FALSE, taskRunning |-> FALSE, tasks |-> 0,
     wpc |-> "none", spc |-> "idle", enqueued |-> 0]

\* no PlayAudioFromMemory is at its wait loop
NoWait == [pc |-> "idle", duration |-> 0, elapsed |-> 0, exit |-> "none"]

Init ==
    /\ pendingItems = [k \in {} |-> NoItem]
    /\ nextSequenceNumber = 1
    /\ nextToPlay = 1
    /\ shutdownRequested = FALSE
    /\ queueMutex = "free"
    /\ tasks = <<>>
    /\ stop = FALSE
    /\ initialized = FALSE
    /\ created = 0
    /\ wpc = [w \in Workers |-> "none"]
    /\ wtask = [w \in Workers |-> NoTask]
    /\ coordRunning = FALSE
    /\ coordInitialized = FALSE
    /\ cpc = "none"
    /\ item = NoItem
    /\ ppc = [p \in Producers |-> "idle"]
    /\ pseq = [p \in Producers |-> 0]
    /\ ptext = [p \in Producers |-> ""]
    /\ spc = "idle"
    /\ allocated = <<>>
    /\ returned = <<>>
    /\ played = <<>>
    /\ resolved = <<>>
    /\ rejected = {}
    /\ executed = {}
    /\ faulted = {}
    /\ atStop = {}
    /\ cache = [k \in {} |-> [data |-> NoAudio, timestamp |-> 0]]
    /\ maxSize = MaxCapacity
    /\ disk = [k \in {} |-> NoAudio]
    /\ crashed = FALSE
    /\ apc = [t \in CacheCallers |-> "idle"]
    /\ akey = [t \in CacheCallers |-> <<>>]
    /\ adata = [t \in CacheCallers |-> NoAudio]
    /\ ares = NoReturn
    /\ lastPut = [k \in {} |-> NoAudio]
    /\ keyCalls = [i \in {} |-> NoCall]
    /\ ftask = NoFetch
    /\ fcache = NoEntry
    /\ qcall = NoQueueCall
    /\ g_isPlaying = FALSE
    /\ g_shouldCancel = FALSE
    /\ hpc = "idle"
    /\ play = [pc |-> "wait", polls |-> 0]
    /\ playlog = [started |-> <<>>, cancelled |-> {}, setDuring |-> {}, failed |-> {},
                  asked |-> {}]
    /\ poolLog = [next |-> 1, accepted |-> <<>>, taken |-> <<>>]
    /\ waitLoop = NoWait
    /\ ttsPool = NewTtsPool
    /\ qlog = [text |-> <<>>, audio |-> <<>>, path |-> <<>>]
    /\ held = [t \in LockThreads |-> {}]
    /\ todo = [t \in LockThreads |-> <<>>]

\* history: a MarkReady / MarkFailed call that found its entry
Resolve(seq) == IF seq \in DOMAIN pendingItems THEN Append(resolved, seq) ELSE resolved

\* ------------------------------------------------- ProcessTTSRequest (producer)
\* requests begun so far: those that already have a number plus those on their way to AddRequest
Started == (nextSequenceNumber - 1) + Cardinality({p \in Producers : ppc[p] \in {"coinit", "add"}})

\* entry: the unlocked load of g_playbackCoordinatorInitialized
P_Begin(p) ==
    /\ ppc[p] = "idle"
    /\ Started < MaxRequests
    /\ \E t \in Texts : ptext' = [ptext EXCEPT ![p] = t]
    /\ ppc' = [ppc EXCEPT ![p] = IF coordInitialized THEN "add" ELSE "coinit"]
    /\ UNCHANGED <<queueVars, poolVars, coordVars, pseq, spc, histVars>>

\* under g_playbackCoordinatorMutex: the second check and the thread start
P_CoordInit(p) ==
    /\ ppc[p] = "coinit"
    /\ IF ~coordInitialized
       THEN /\ coordRunning' = TRUE
            /\ cpc' = "loop"
            /\ coordInitialized' = TRUE
       ELSE UNCHANGED <<coordRunning, cpc, coordInitialized>>
    /\ ppc' = [ppc EXCEPT ![p] = "add"]
    /\ UNCHANGED <<queueVars, poolVars, item, pseq, ptext, spc, histVars>>

\* PlaybackQueue::AddRequest, one critical section
P_AddRequest(p) ==
    /\ ppc[p] = "add"
    /\ queueMutex = "free"
    /\ nextSequenceNumber' = FetchAdd(nextSequenceNumber)
    /\ pendingItems' = AddRequestItems(pendingItems, nextSequenceNumber, ptext[p])
    /\ pseq' = [pseq EXCEPT ![p] = nextSequenceNumber]
    /\ allocated' = Append(allocated, nextSequenceNumber)
    /\ ppc' = [ppc EXCEPT ![p] = "enq"]
    /\ UNCHANGED <<nextToPlay, shutdownRequested, queueMutex, poolVars, coordVars,
                   ptext, spc, returned, played, resolved, rejected, executed, faulted, atStop>>

\* FetchThreadPool::Enqueue: the unlocked load of initialized
P_EnqueueCheck(p) ==
    /\ ppc[p] = "enq"
    /\ ppc' = [ppc EXCEPT ![p] = IF initialized THEN "enq_push" ELSE "enq_init"]
    /\ UNCHANGED <<queueVars, poolVars, coordVars, pseq, ptext, spc, histVars>>

\* FetchThreadPool::Enqueue: under poolMutex, the second check and the worker creation
\* an Enqueue that starts the pool without the second look at initialized
P_EnqueueInit_NoDoubleCheck(p) ==
    /\ ppc[p] = "enq_init"
    /\ wpc' = [w \in Workers |-> "ready"]
    /\ created' = created + MaxThreads
    /\ initialized' = TRUE
    /\ ppc' = [ppc EXCEPT ![p] = "enq_push"]
    /\ UNCHANGED <<queueVars, tasks, stop, wtask, coordVars, pseq, ptext, spc, histVars>>

P_EnqueueInit(p) ==
    /\ ppc[p] = "enq_init"
    /\ IF ~initialized
       THEN /\ wpc' = [w \in Workers |-> "ready"]
            /\ created' = created + MaxThreads
            /\ initialized' = TRUE
       ELSE UNCHANGED <<wpc, initialized, created>>
    /\ ppc' = [ppc EXCEPT ![p] = "enq_push"]
    /\ UNCHANGED <<queueVars, tasks, stop, wtask, coordVars, pseq, ptext, spc, histVars>>

\* FetchThreadPool::Enqueue: under poolMutex, the size check and the push.
\* A rejected task sends ProcessTTSRequest on to MarkFailed(seq).
P_EnqueuePush(p) ==
    /\ ppc[p] = "enq_push"
    /\ IF QueueFull(tasks)
       THEN /\ ppc' = [ppc EXCEPT ![p] = "markfailed"]
            /\ rejected' = rejected \cup {pseq[p]}
            /\ UNCHANGED <<tasks, wpc, pseq, ptext>>
       ELSE /\ tasks' = Append(tasks, [seq |-> pseq[p], text |-> ptext[p]])
            /\ \E woken \in {NotifyOne(w) : w \in IF WaitingWorkers # {} THEN WaitingWorkers
                                                                        ELSE Workers} :
                 wpc' = woken
            /\ ppc' = [ppc EXCEPT ![p] = "idle"]
            /\ pseq' = [pseq EXCEPT ![p] = 0]
            /\ ptext' = [ptext EXCEPT ![p] = ""]
            /\ UNCHANGED rejected
    /\ UNCHANGED <<queueVars, stop, initialized, created, wtask, coordVars, spc,
                   allocated, returned, played, resolved, executed, faulted, atStop>>

\* ProcessTTSRequest: g_playbackQueue.MarkFailed(seq) after a rejected Enqueue
P_MarkFailed(p) ==
    /\ ppc[p] = "markfailed"
    /\ queueMutex = "free"
    /\ pendingItems' = MarkFailedItems(pendingItems, pseq[p])
    /\ cpc' = IF pseq[p] \in DOMAIN pendingItems THEN NotifyQueue(cpc) ELSE cpc
    /\ ppc' = [ppc EXCEPT ![p] = "idle"]
    /\ pseq' = [pseq EXCEPT ![p] = 0]
    /\ ptext' = [ptext EXCEPT ![p] = ""]
    /\ resolved' = Resolve(pseq[p])
    /\ UNCHANGED <<nextSequenceNumber, nextToPlay, shutdownRequested, queueMutex, poolVars,
                   coordRunning, coordInitialized, item, spc,
                   allocated, returned, played, rejected, executed, faulted, atStop>>

\* ------------------------------------------------ FetchThreadPool::WorkerLoop
\* one pass through the locked block: cv.wait(lock, pred), the stop check, the pop
W_Acquire(w) ==
    /\ wpc[w] = "ready"
    /\ IF stop /\ tasks = <<>>
       THEN /\ wpc' = [wpc EXCEPT ![w] = "exited"]
            /\ UNCHANGED <<tasks, wtask, executed, atStop>>
       ELSE IF tasks # <<>>
            THEN /\ wtask' = [wtask EXCEPT ![w] = Head(tasks)]
                 /\ tasks' = Tail(tasks)
                 /\ wpc' = [wpc EXCEPT ![w] = "running"]
                 /\ executed' = executed \cup {Head(tasks).seq}
                 /\ atStop' = atStop \ {Head(tasks).seq}
            ELSE /\ wpc' = [wpc EXCEPT ![w] = "waiting"]
                 /\ UNCHANGED <<tasks, wtask, executed, atStop>>
    /\ UNCHANGED <<queueVars, stop, initialized, created, coordVars, producerVars, spc,
                   allocated, returned, played, resolved, rejected, faulted>>

\* SanitizeText: false iff nothing is left of the text
SanitizeText(text) == text # ""

\* FetchAndEnqueueForPlayback: what it reports for its request, given what the
\* cache lookup and the fetch gave
TaskResult(text, cacheHit, fetched) ==
    IF cacheHit
    THEN [ready |-> TRUE, audio |-> Audio(text)]
    ELSE IF ~SanitizeText(text)
         THEN [ready |-> FALSE, audio |-> NoAudio]
         ELSE IF fetched # NoAudio
              THEN [ready |-> TRUE, audio |-> fetched]
              ELSE [ready |-> FALSE, audio |-> NoAudio]

\* task(): FetchAndEnqueueForPlayback(text, seq) runs to its MarkReady / MarkFailed
W_TaskDone(w) ==
    /\ wpc[w] = "running"
    /\ queueMutex = "free"
    /\ \E r \in {TaskResult(wtask[w].text, cacheHit, fetched) :
                   cacheHit \in BOOLEAN, fetched \in {NoAudio, Audio(wtask[w].text)}} :
         pendingItems' =
            IF r.ready
            THEN MarkReadyItems(pendingItems, wtask[w].seq, r.audio, CachePath(wtask[w].text))
            ELSE MarkFailedItems(pendingItems, wtask[w].seq)
    /\ cpc' = IF wtask[w].seq \in DOMAIN pendingItems THEN NotifyQueue(cpc) ELSE cpc
    /\ wpc' = [wpc EXCEPT ![w] = "ready"]
    /\ wtask' = [wtask EXCEPT ![w] = NoTask]
    /\ resolved' = Resolve(wtask[w].seq)
    /\ UNCHANGED <<nextSequenceNumber, nextToPlay, shutdownRequested, queueMutex,
                   tasks, stop, initialized, created, coordRunning, coordInitialized, item,
                   producerVars, spc, allocated, returned, played, rejected, executed, faulted, atStop>>

\* a WorkerLoop without the try / catch: the exception ends the worker's thread
W_TaskThrows_KillsWorker(w) ==
    /\ wpc[w] = "running"
    /\ wpc' = [wpc EXCEPT ![w] = "exited"]
    /\ wtask' = [wtask EXCEPT ![w] = NoTask]
    /\ faulted' = faulted \cup {wtask[w].seq}
    /\ UNCHANGED <<queueVars, tasks, stop, initialized, created, coordVars, producerVars, spc,
                   allocated, returned, played, resolved, rejected, executed, atStop>>

\* task() throws (std::bad_alloc from a vector growth, ...): the catch handlers of
\* WorkerLoop log it and the loop goes on; nothing was reported to the queue
W_TaskThrows(w) ==
    /\ wpc[w] = "running"
    /\ wpc' = [wpc EXCEPT ![w] = "ready"]
    /\ wtask' = [wtask EXCEPT ![w] = NoTask]
    /\ faulted' = faulted \cup {wtask[w].seq}
    /\ UNCHANGED <<queueVars, tasks, stop, initialized, created, coordVars, producerVars, spc,
                   allocated, returned, played, resolved, rejected, executed, atStop>>

\* a condition variable may wake a waiter without a notify
W_SpuriousWake(w) ==
    /\ wpc[w] = "waiting"
    /\ wpc' = [wpc EXCEPT ![w] = "ready"]
    /\ UNCHANGED <<queueVars, tasks, stop, initialized, created, wtask, coordVars, producerVars, spc, histVars>>

\* ---------------------------------------------------- PlaybackCoordinator
\* while (g_playbackCoordinatorRunning.load())
C_Loop ==
    /\ cpc = "loop"
    /\ cpc' = IF coordRunning THEN "w_lock" ELSE "exit"
    /\ UNCHANGED <<queueVars, poolVars, coordRunning, coordInitialized, item,
                   producerVars, spc, histVars>>

\* WaitForNextReady: takes (or retakes after a wait) queueMutex, loads shutdownRequested
C_Check ==
    /\ cpc = "w_lock"
    /\ queueMutex = "free"
    /\ IF shutdownRequested
       THEN /\ cpc' = "exit"
            /\ UNCHANGED queueMutex
       ELSE /\ cpc' = "w_find"
            /\ queueMutex' = "coordinator"
    /\ UNCHANGED <<pendingItems, nextSequenceNumber, nextToPlay, shutdownRequested,
                   poolVars, coordRunning, coordInitialized, item, producerVars, spc, histVars>>

\* WaitForNextReady: the lookup; returns the entry or goes into cv.wait(lock)
C_Find ==
    /\ cpc = "w_find"
    /\ IF NextIsReady(pendingItems, nextToPlay)
       THEN /\ item' = pendingItems[ExpectedSeq(pendingItems, nextToPlay)]
            /\ pendingItems' = EraseItem(pendingItems, ExpectedSeq(pendingItems, nextToPlay))
            /\ returned' = Append(returned, item'.sequenceNumber)
            /\ cpc' = "got"
       ELSE /\ cpc' = "w_wait"
            /\ UNCHANGED <<item, pendingItems, returned>>
    /\ queueMutex' = "free"
    /\ UNCHANGED <<nextSequenceNumber, nextToPlay, shutdownRequested, poolVars,
                   coordRunning, coordInitialized, producerVars, spc,
                   allocated, played, resolved, rejected, executed, faulted, atStop>>

C_SpuriousWake ==
    /\ cpc = "w_wait"
    /\ cpc' = "w_lock"
    /\ UNCHANGED <<queueVars, poolVars, coordRunning, coordInitialized, item,
                   producerVars, spc, histVars>>

\* a coordinator that does not look at item.failed
ShouldSkip_Never(it) == FALSE

\* if (item.failed)
ShouldSkip(it) == it.failed

\* PlaybackQueue::Remove(seq), one critical section
Remove(seq) ==
    /\ queueMutex = "free"
    /\ nextToPlay' = RemoveNextToPlay(seq, nextToPlay)
    /\ pendingItems' = RemoveItems(pendingItems, seq)

\* the failed branch: Remove and continue, no playback
C_Skip ==
    /\ cpc = "got"
    /\ ShouldSkip(item)
    /\ Remove(item.sequenceNumber)
    /\ item' = NoItem
    /\ cpc' = "loop"
    /\ UNCHANGED <<nextSequenceNumber, shutdownRequested, queueMutex, poolVars,
                   coordRunning, coordInitialized, producerVars, spc, histVars>>

\* lock g_audioMutex and call PlayAudioFromMemory
C_Play ==
    /\ cpc = "got"
    /\ ~ShouldSkip(item)
    /\ played' = Append(played, item.sequenceNumber)
    /\ cpc' = "playing"
    /\ UNCHANGED <<queueVars, poolVars, coordRunning, coordInitialized, item,
                   producerVars, spc, allocated, returned, resolved, rejected, executed, faulted, atStop>>

\* PlayAudioFromMemory returns, g_audioMutex is released
C_PlayDone ==
    /\ cpc = "playing"
    /\ cpc' = "remove"
    /\ UNCHANGED <<queueVars, poolVars, coordRunning, coordInitialized, item,
                   producerVars, spc, histVars>>

\* Remove after playback; the item goes out of scope
C_Remove ==
    /\ cpc = "remove"
    /\ Remove(item.sequenceNumber)
    /\ item' = NoItem
    /\ cpc' = "loop"
    /\ UNCHANGED <<nextSequenceNumber, shutdownRequested, queueMutex, poolVars,
                   coordRunning, coordInitialized, producerVars, spc, histVars>>

\* ------------------------------------------------- ShutdownParallelSystem
\* the initialized check and g_playbackCoordinatorRunning.store(false)
S_Begin ==
    /\ spc = "idle"
    /\ IF ~coordInitialized
       THEN /\ spc' = "done"
            /\ UNCHANGED coordRunning
       ELSE /\ coordRunning' = FALSE
            /\ spc' = "q_store"
    /\ UNCHANGED <<queueVars, poolVars, coordInitialized, cpc, item, producerVars, histVars>>

\* PlaybackQueue::Shutdown: shutdownRequested.store(true), queueMutex not taken
S_QueueStore ==
    /\ spc = "q_store"
    /\ shutdownRequested' = TRUE
    /\ spc' = "q_notify"
    /\ UNCHANGED <<pendingItems, nextSequenceNumber, nextToPlay, queueMutex, poolVars,
                   coordVars, producerVars, histVars>>

\* PlaybackQueue::Shutdown: cv.notify_all()
S_QueueNotify ==
    /\ spc = "q_notify"
    /\ cpc' = NotifyQueue(cpc)
    /\ spc' = "p_begin"
    /\ UNCHANGED <<queueVars, poolVars, coordRunning, coordInitialized, item,
                   producerVars, histVars>>

\* FetchThreadPool::Shutdown: the initialized check, stop.store(true) under poolMutex
S_PoolStop ==
    /\ spc = "p_begin"
    /\ IF ~initialized
       THEN /\ spc' = "detach"
            /\ UNCHANGED <<stop, atStop>>
       ELSE /\ stop' = TRUE
            /\ spc' = "p_notify"
            /\ atStop' = {tasks[i].seq : i \in DOMAIN tasks}
    /\ UNCHANGED <<queueVars, tasks, initialized, created, wpc, wtask, coordVars, producerVars,
                   allocated, returned, played, resolved, rejected, executed, faulted>>

\* FetchThreadPool::Shutdown: cv.notify_all()
S_PoolNotify ==
    /\ spc = "p_notify"
    /\ wpc' = NotifyAllWorkers
    /\ spc' = "p_join"
    /\ UNCHANGED <<queueVars, tasks, stop, initialized, created, wtask, coordVars, producerVars, histVars>>

\* a Shutdown that does not join its workers
S_PoolJoin_NoWait ==
    /\ spc = "p_join"
    /\ spc' = "detach"
    /\ UNCHANGED <<queueVars, poolVars, coordVars, producerVars, histVars>>

\* FetchThreadPool::Shutdown: every join has returned
S_PoolJoin ==
    /\ spc = "p_join"
    /\ \A w \in Workers : wpc[w] = "exited"
    /\ spc' = "detach"
    /\ UNCHANGED <<queueVars, poolVars, coordVars, producerVars, histVars>>

\* g_playbackCoordinatorThread->detach()
S_Detach ==
    /\ spc = "detach"
    /\ spc' = "done"
    /\ UNCHANGED <<queueVars, poolVars, coordVars, producerVars, histVars>>

\* ------------------------------------------------------- specification
Producer(p) ==
    \/ P_Begin(p)
    \/ P_CoordInit(p)
    \/ P_AddRequest(p)
    \/ P_EnqueueCheck(p)
    \/ P_EnqueueInit(p)
    \/ P_EnqueuePush(p)
    \/ P_MarkFailed(p)

Worker(w) ==
    \/ W_Acquire(w)
    \/ W_TaskDone(w)
    \/ W_TaskThrows(w)
    \/ W_SpuriousWake(w)

Coordinator ==
    \/ C_Loop
    \/ C_Check
    \/ C_Find
    \/ C_SpuriousWake
    \/ C_Skip
    \/ C_Play
    \/ C_PlayDone
    \/ C_Remove

ShutdownThread ==
    \/ S_Begin
    \/ S_QueueStore
    \/ S_QueueNotify
    \/ S_PoolStop
    \/ S_PoolNotify
    \/ S_PoolJoin
    \/ S_Detach

\* a step of the pipeline leaves the cache and the key calls as they are
Pipeline(A) == A /\ UNCHANGED <<cacheVars, keyCalls, fetchVars, qcall, playVars, lockVars, aloneVars>>

Next ==
    Pipeline(\/ \E p \in Producers : Producer(p)
             \/ \E w \in Workers : Worker(w)
             \/ Coordinator
             \/ ShutdownThread)

Spec == Init /\ [][Next]_vars

\* Scheduling: every thread that can take a step eventually takes one, a contended
\* mutex is eventually won, and a running task terminates (by returning or throwing).
\* Nothing forces a new request, a shutdown or a spurious wakeup.
FairSpec ==
    /\ Spec
    /\ \A p \in Producers :
         /\ WF_vars(Pipeline(P_CoordInit(p)))
         /\ SF_vars(Pipeline(P_AddRequest(p)))
         /\ WF_vars(Pipeline(P_EnqueueCheck(p)))
         /\ WF_vars(Pipeline(P_EnqueueInit(p)))
         /\ WF_vars(Pipeline(P_EnqueuePush(p)))
         /\ SF_vars(Pipeline(P_MarkFailed(p)))
    /\ \A w \in Workers :
         /\ WF_vars(Pipeline(W_Acquire(w)))
         /\ WF_vars(Pipeline(W_TaskDone(w) \/ W_TaskThrows(w)))
    /\ WF_vars(Pipeline(C_Loop))
    /\ WF_vars(Pipeline(C_Check))
    /\ WF_vars(Pipeline(C_Find))
    /\ SF_vars(Pipeline(C_Skip))
    /\ WF_vars(Pipeline(C_Play))
    /\ WF_vars(Pipeline(C_PlayDone))
    /\ SF_vars(Pipeline(C_Remove))
    /\ WF_vars(Pipeline(S_QueueStore))
    /\ WF_vars(Pipeline(S_QueueNotify))
    /\ WF_vars(Pipeline(S_PoolStop))
    /\ WF_vars(Pipeline(S_PoolNotify))
    /\ WF_vars(Pipeline(S_PoolJoin))
    /\ WF_vars(Pipeline(S_Detach))

\* ------------------------------------------------------------ AudioCache
\* cache.size() >= maxSize with an empty map: oldest == cache.end(), and
\* cache.erase(cache.end()) is undefined
EraseUndefined == CacheFull(cache, maxSize) /\ DOMAIN cache = {}

\* what the undefined erase does where it happens: the process dies, or nothing
Dies == IF EraseUndefined THEN BOOLEAN ELSE {FALSE}

\* the entry the eviction loop ends on
Victims == IF DOMAIN cache = {} THEN {<<>>} ELSE Oldest(cache)

\* Get that returns the bytes of a memory hit and leaves the timestamp of the entry alone
A_GetMemory_NoTouch(t, text) ==
    /\ ~crashed
    /\ apc[t] = "idle"
    /\   LET key == GenerateCacheKey(text, Server, Voice) IN
         IF key \in DOMAIN cache
         THEN /\ ares' = [key |-> key, found |-> TRUE, data |-> cache[key].data]
              /\ UNCHANGED <<cache, apc, akey>>
         ELSE /\ apc' = [apc EXCEPT ![t] = "g_disk"]
              /\ akey' = [akey EXCEPT ![t] = key]
              /\ UNCHANGED <<cache, ares>>
    /\ UNCHANGED <<maxSize, disk, crashed, adata, lastPut, pipelineVars>>

\* Get: GenerateCacheKey and the lookup in the memory tier, under cacheMutex
A_GetMemory(t, text) ==
    /\ ~crashed
    /\ apc[t] = "idle"
    /\   LET key == GenerateCacheKey(text, Server, Voice) IN
         IF key \in DOMAIN cache
         THEN /\ cache' = Rebase([cache EXCEPT ![key].timestamp = Now(cache)])
              /\ ares' = [key |-> key, found |-> TRUE, data |-> cache[key].data]
              /\ UNCHANGED <<apc, akey>>
         ELSE /\ apc' = [apc EXCEPT ![t] = "g_disk"]
              /\ akey' = [akey EXCEPT ![t] = key]
              /\ UNCHANGED <<cache, ares>>
    /\ UNCHANGED <<maxSize, disk, crashed, adata, lastPut, pipelineVars>>

\* Get: LoadFromDisk, outside the lock; ok is false when the disk cache is disabled
\* or CreateFileA, GetFileSizeEx or ReadFile fails
A_LoadFromDisk(t) ==
    /\ ~crashed
    /\ apc[t] = "g_disk"
    /\ \E ok \in (IF akey[t] \in DOMAIN disk THEN BOOLEAN ELSE {FALSE}) :
         IF ok
         THEN /\ adata' = [adata EXCEPT ![t] = disk[akey[t]]]
              /\ apc' = [apc EXCEPT ![t] = "g_promote"]
              /\ UNCHANGED <<akey, ares>>
         ELSE /\ ares' = [key |-> akey[t], found |-> FALSE, data |-> NoAudio]
              /\ apc' = [apc EXCEPT ![t] = "idle"]
              /\ akey' = [akey EXCEPT ![t] = <<>>]
              /\ UNCHANGED adata
    /\ UNCHANGED <<cache, maxSize, disk, crashed, lastPut, pipelineVars>>

\* a Get that returns the disk hit without loading it into the memory tier
A_Promote_NoInsert(t) ==
    /\ ~crashed
    /\ apc[t] = "g_promote"
    /\ ares' = [key |-> akey[t], found |-> TRUE, data |-> adata[t]]
    /\ apc' = [apc EXCEPT ![t] = "idle"]
    /\ akey' = [akey EXCEPT ![t] = <<>>]
    /\ adata' = [adata EXCEPT ![t] = NoAudio]
    /\ UNCHANGED <<cache, maxSize, disk, crashed, lastPut, pipelineVars>>

\* Get: the disk hit is loaded into the memory tier, under cacheMutex
A_Promote(t) ==
    /\ ~crashed
    /\ apc[t] = "g_promote"
    /\ \E victim \in Victims, dies \in Dies :
         IF dies
         THEN /\ crashed' = TRUE
              /\ UNCHANGED <<cache, apc, akey, adata, ares, lastPut>>
         ELSE /\ cache' = Rebase(EvictAndStore(cache, maxSize, victim, akey[t], adata[t],
                                               Now(cache)))
              /\ lastPut' = TrackEvict(lastPut, cache, maxSize, victim)
              /\ ares' = [key |-> akey[t], found |-> TRUE, data |-> adata[t]]
              /\ apc' = [apc EXCEPT ![t] = "idle"]
              /\ akey' = [akey EXCEPT ![t] = <<>>]
              /\ adata' = [adata EXCEPT ![t] = NoAudio]
              /\ UNCHANGED crashed
    /\ UNCHANGED <<maxSize, disk, pipelineVars>>

\* Put, one critical section: eviction, store, SaveToDisk
A_Put(t) ==
    /\ ~crashed
    /\ apc[t] = "idle"
    /\ \E text \in CacheTexts, outcome \in SaveOutcomes, victim \in Victims, dies \in Dies :
       \E data \in Payloads(text) :
         LET key == GenerateCacheKey(text, Server, Voice) IN
         IF dies
         THEN /\ crashed' = TRUE
              /\ UNCHANGED <<cache, disk, lastPut>>
         ELSE /\ cache' = Rebase(EvictAndStore(cache, maxSize, victim, key, data, Now(cache)))
              /\ disk' = SaveToDisk(disk, key, data, outcome)
              /\ lastPut' = TrackPut(TrackEvict(lastPut, cache, maxSize, victim), key, data)
              /\ UNCHANGED crashed
    /\ UNCHANGED <<maxSize, apc, akey, adata, ares, pipelineVars>>

\* SetMaxSize
A_SetMaxSize ==
    /\ ~crashed
    /\ \E size \in Capacities : maxSize' = size
    /\ UNCHANGED <<cache, disk, crashed, apc, akey, adata, ares, lastPut, pipelineVars>>

CacheCaller(t) ==
    \/ \E text \in CacheTexts : A_GetMemory(t, text)
    \/ A_LoadFromDisk(t)
    \/ A_Promote(t)
    \/ A_Put(t)

CacheNext ==
    /\ \/ \E t \in CacheCallers : CacheCaller(t)
       \/ A_SetMaxSize
    /\ UNCHANGED <<keyCalls, fetchVars, qcall, playVars, lockVars, aloneVars>>

CacheSpec == Init /\ [][CacheNext]_vars

\* ------------------------------------------------------ GenerateCacheKey
\* one call of GenerateCacheKey(text, server, voice)
K_GenerateCacheKey(i) ==
    /\ \E text \in KeyStrings, server \in KeyStrings, voice \in KeyStrings :
         keyCalls' = [j \in DOMAIN keyCalls \cup {i} |->
                        IF j = i
                        THEN [text |-> text, server |-> server, voice |-> voice,
                              combined |-> Combined(text, server, voice),
                              key |-> GenerateCacheKey(text, server, voice)]
                        ELSE keyCalls[j]]
    /\ UNCHANGED <<pipelineVars, cacheVars, fetchVars, qcall, playVars, lockVars, aloneVars>>

KeyNext == \E i \in KeyCalls : K_GenerateCacheKey(i)

KeySpec == Init /\ [][KeyNext]_vars

\* ------------------------------------------- FetchAndEnqueueForPlayback
\* FetchAndEnqueueForPlayback(text, seq) is called
F_Begin ==
    /\ ftask.pc = "idle"
    /\ \E text \in FetchTexts : ftask' = [NoFetch EXCEPT !.pc = "get", !.text = text]
    /\ UNCHANGED fcache

\* AudioCache::Get(text, cachedAudio): a hit needs an entry for the text; an
\* entry may have left the cache; a hit ends in MarkReady
F_Get ==
    /\ ftask.pc = "get"
    /\ \/ /\ fcache.data # NoAudio
          /\ fcache.text = ftask.text
          /\ ftask' = [ftask EXCEPT !.pc = "idle", !.hit = TRUE,
                                    !.mark = [kind |-> "ready", audio |-> fcache.data]]
       \/ ftask' = [ftask EXCEPT !.pc = "sanitize"]
    /\ UNCHANGED fcache

\* F_Sanitize without the test of what SanitizeText returns
F_Sanitize_NoTest ==
    /\ ftask.pc = "sanitize"
    /\ ftask' = [ftask EXCEPT !.pc = "loop", !.sanitizedText = SanitizedText(ftask.text)]
    /\ UNCHANGED fcache

\* sanitizedText = text; if (!SanitizeText(sanitizedText)) MarkFailed
F_Sanitize ==
    /\ ftask.pc = "sanitize"
    /\ LET s == SanitizedText(ftask.text) IN
        IF s = <<>>
        THEN ftask' = [ftask EXCEPT !.pc = "idle", !.sanitizedText = s,
                                   !.mark = [kind |-> "failed", audio |-> NoAudio]]
        ELSE ftask' = [ftask EXCEPT !.pc = "loop", !.sanitizedText = s]
    /\ UNCHANGED fcache

\* for (attempt = 0; attempt < maxRetries; ++attempt): the test, and the Sleep
\* that opens every attempt but the first
F_LoopTest ==
    /\ ftask.pc = "loop"
    /\ IF ftask.attempt < DefaultRetries
       THEN ftask' = [ftask EXCEPT !.pc = "attempt",
                        !.slept = IF ftask.attempt > 0
                                  THEN Append(@, DelayMs(ftask.attempt)) ELSE @]
       ELSE ftask' = [ftask EXCEPT !.pc = "fetched", !.audioData = NoAudio]
    /\ UNCHANGED fcache

\* the body of the loop: one request and what becomes of it
F_Attempt ==
    /\ ftask.pc = "attempt"
    /\ \E o \in AttemptOutcomes(ftask.sanitizedText) :
         LET outs == Append(ftask.outcomes, o) IN
         CASE AttemptEnds(o) = "continue" ->
                ftask' = [ftask EXCEPT !.pc = "loop", !.outcomes = outs,
                                      !.attempt = @ + 1]
           [] AttemptEnds(o) = "break" ->
                ftask' = [ftask EXCEPT !.pc = "fetched", !.outcomes = outs,
                                      !.audioData = NoAudio]
           [] AttemptEnds(o) = "return" ->
                ftask' = [ftask EXCEPT !.pc = "fetched", !.outcomes = outs,
                                      !.audioData = o.read]
    /\ UNCHANGED fcache

\* if (!audioData.empty()) { Put; MarkReady } else MarkFailed
F_Report ==
    /\ ftask.pc = "fetched"
    /\ IF ftask.audioData # NoAudio
       THEN /\ fcache' = [text |-> ftask.text, data |-> ftask.audioData]
            /\ ftask' = [ftask EXCEPT !.pc = "idle",
                            !.mark = [kind |-> "ready", audio |-> ftask.audioData]]
       ELSE /\ fcache' = fcache
            /\ ftask' = [ftask EXCEPT !.pc = "idle",
                            !.mark = [kind |-> "failed", audio |-> NoAudio]]

FetchNext ==
    /\ \/ F_Begin
       \/ F_Get
       \/ F_Sanitize
       \/ F_LoopTest
       \/ F_Attempt
       \/ F_Report
    /\ UNCHANGED <<pipelineVars, cacheVars, keyCalls, qcall, playVars, lockVars, aloneVars>>

FetchSpec == Init /\ [][FetchNext]_vars

\* ------------------------------------------------- PlaybackQueue, alone
\* The methods of PlaybackQueue called without the discipline of the pipeline: any
\* thread may call MarkReady or MarkFailed with any sequence number at any time.  The
\* consumer is the loop of PlaybackCoordinator: WaitForNextReady, then Remove of the
\* item it got.  Every method runs under queueMutex, so each call is one step.
QueueSeqs == 1..(MaxRequests + 1)     \* includes a number AddRequest never returns
QueueAudios == {Audio("A"), Audio("B")}
QueueTexts == {"A", "B"}              \* texts handed to AddRequest
\* the cachePath argument of MarkReady: null, or a pointer to one of two paths
QueuePaths == {NullPath, CachePath("A"), CachePath("B")}

\* what a call leaves alone
QueueFrame ==
    UNCHANGED <<shutdownRequested, queueMutex, poolVars, coordRunning, coordInitialized,
                cpc, producerVars, spc, histVars, cacheVars, keyCalls, fetchVars, playVars,
                lockVars, poolLog, waitLoop, ttsPool>>

\* history: the value v recorded for sequence number n
Logged(log, n, v) == [k \in DOMAIN log \cup {n} |-> IF k = n THEN v ELSE log[k]]

\* history: what was recorded for the entries that are still in the map
LogOf(log, keys) ==
    [text |-> [k \in DOMAIN log.text \cap keys |-> log.text[k]],
     audio |-> [k \in DOMAIN log.audio \cap keys |-> log.audio[k]],
     path |-> [k \in DOMAIN log.path \cap keys |-> log.path[k]]]

Q_AddRequest ==
    /\ nextSequenceNumber <= MaxRequests
    /\ \E text \in QueueTexts :
         /\ pendingItems' = AddRequestItems(pendingItems, nextSequenceNumber, text)
         /\ qcall' = [op |-> "AddRequest", seq |-> nextSequenceNumber, audio |-> NoAudio]
         /\ qlog' = [qlog EXCEPT !.text = Logged(@, nextSequenceNumber, text)]
    /\ nextSequenceNumber' = FetchAdd(nextSequenceNumber)
    /\ UNCHANGED <<nextToPlay, item>>
    /\ QueueFrame

Q_MarkReady ==
    /\ \E seq \in QueueSeqs, audio \in QueueAudios, path \in QueuePaths :
         /\ pendingItems' = MarkReadyItems(pendingItems, seq, audio, path)
         /\ qcall' = [op |-> "MarkReady", seq |-> seq, audio |-> audio]
         /\ qlog' = IF seq \in DOMAIN qlog.text
                    THEN [qlog EXCEPT !.audio = Logged(@, seq, audio),
                                      !.path = IF path = NullPath THEN @
                                               ELSE Logged(@, seq, path)]
                    ELSE qlog
    /\ UNCHANGED <<nextSequenceNumber, nextToPlay, item>>
    /\ QueueFrame

Q_MarkFailed ==
    /\ \E seq \in QueueSeqs :
         /\ pendingItems' = MarkFailedItems(pendingItems, seq)
         /\ qcall' = [op |-> "MarkFailed", seq |-> seq, audio |-> NoAudio]
    /\ UNCHANGED <<nextSequenceNumber, nextToPlay, item, qlog>>
    /\ QueueFrame

\* WaitForNextReady returns true; it blocks while the entry at nextToPlay is not ready
Q_WaitForNextReady ==
    /\ item = NoItem
    /\ NextIsReady(pendingItems, nextToPlay)
    /\ item' = pendingItems[ExpectedSeq(pendingItems, nextToPlay)]
    /\ pendingItems' = EraseItem(pendingItems, ExpectedSeq(pendingItems, nextToPlay))
    /\ qcall' = [op |-> "WaitForNextReady", seq |-> item'.sequenceNumber, audio |-> NoAudio]
    /\ qlog' = LogOf(qlog, DOMAIN pendingItems')
    /\ UNCHANGED <<nextSequenceNumber, nextToPlay>>
    /\ QueueFrame

Q_Remove ==
    /\ item # NoItem
    /\ Remove(item.sequenceNumber)
    /\ item' = NoItem
    /\ qcall' = [op |-> "Remove", seq |-> item.sequenceNumber, audio |-> NoAudio]
    /\ qlog' = LogOf(qlog, DOMAIN pendingItems')
    /\ UNCHANGED nextSequenceNumber
    /\ QueueFrame

\* Remove called with any sequence number, by a caller that holds no item
Q_RemoveSeq ==
    /\ \E seq \in QueueSeqs :
         /\ Remove(seq)
         /\ qcall' = [op |-> "Remove", seq |-> seq, audio |-> NoAudio]
    /\ qlog' = LogOf(qlog, DOMAIN pendingItems')
    /\ UNCHANGED <<nextSequenceNumber, item>>
    /\ QueueFrame

QueueNext ==
    \/ Q_AddRequest
    \/ Q_MarkReady
    \/ Q_MarkFailed
    \/ Q_WaitForNextReady
    \/ Q_Remove
    \/ Q_RemoveSeq

QueueSpec == Init /\ [][QueueNext]_vars

\* ------------------------------------------- playback and cancellation
\* The coordinator's loop with PlayAudioFromMemory in its steps, the hotkey window
\* procedure, and requests that are submitted and resolved as the pipeline does it:
\* one MarkReady or MarkFailed for a pending entry.
MaxPolls == 2           \* iterations of the wait loop before the timeout ends it

PlayFrame ==
    UNCHANGED <<shutdownRequested, queueMutex, poolVars, coordRunning, coordInitialized,
                cpc, producerVars, spc, histVars, cacheVars, keyCalls, fetchVars, qcall,
                lockVars, aloneVars>>

\* the coordinator is in PlayAudioFromMemory(item) past the reset of g_shouldCancel and
\* has not left the wait loop
Playing == play.pc \in {"open", "loop"}

T_AddRequest ==
    /\ nextSequenceNumber <= MaxRequests
    /\ \E text \in Texts :
         pendingItems' = AddRequestItems(pendingItems, nextSequenceNumber, text)
    /\ nextSequenceNumber' = FetchAdd(nextSequenceNumber)
    /\ UNCHANGED <<nextToPlay, item, playVars>>
    /\ PlayFrame

T_MarkReady ==
    /\ \E seq \in DOMAIN pendingItems :
         /\ ~pendingItems[seq].isReady
         /\ pendingItems' = MarkReadyItems(pendingItems, seq, Audio("A"), CachePath("A"))
    /\ UNCHANGED <<nextSequenceNumber, nextToPlay, item, playVars>>
    /\ PlayFrame

T_MarkFailed ==
    /\ \E seq \in DOMAIN pendingItems :
         /\ ~pendingItems[seq].isReady
         /\ pendingItems' = MarkFailedItems(pendingItems, seq)
         /\ playlog' = [playlog EXCEPT !.failed = @ \cup {seq}]
    /\ UNCHANGED <<nextSequenceNumber, nextToPlay, item, g_isPlaying, g_shouldCancel, hpc, play>>
    /\ PlayFrame

\* WaitForNextReady returns an item
T_WaitForNextReady ==
    /\ play.pc = "wait"
    /\ NextIsReady(pendingItems, nextToPlay)
    /\ item' = pendingItems[ExpectedSeq(pendingItems, nextToPlay)]
    /\ pendingItems' = EraseItem(pendingItems, ExpectedSeq(pendingItems, nextToPlay))
    /\ play' = [play EXCEPT !.pc = "got"]
    /\ UNCHANGED <<nextSequenceNumber, nextToPlay, g_isPlaying, g_shouldCancel, hpc, playlog>>
    /\ PlayFrame

\* if (item.failed) { Remove; continue; }
T_Skip ==
    /\ play.pc = "got"
    /\ ShouldSkip(item)
    /\ Remove(item.sequenceNumber)
    /\ item' = NoItem
    /\ play' = [play EXCEPT !.pc = "wait"]
    /\ UNCHANGED <<nextSequenceNumber, g_isPlaying, g_shouldCancel, hpc, playlog>>
    /\ PlayFrame

\* PlayAudioFromMemory is called: it returns at once for empty audio or when the temp
\* file cannot be created; otherwise it writes the file and sets g_isPlaying
T_Enter ==
    /\ play.pc = "got"
    /\ ~ShouldSkip(item)
    /\ playlog' = [playlog EXCEPT !.started = Append(@, item.sequenceNumber)]
    /\ \E fileCreated \in BOOLEAN :
         IF item.audioData = NoAudio \/ ~fileCreated
         THEN /\ play' = [play EXCEPT !.pc = "remove"]
              /\ UNCHANGED g_isPlaying
         ELSE /\ play' = [play EXCEPT !.pc = "reset"]
              /\ g_isPlaying' = TRUE
    /\ UNCHANGED <<pendingItems, nextSequenceNumber, nextToPlay, item, g_shouldCancel, hpc>>
    /\ PlayFrame

\* a PlayAudioFromMemory that leaves g_shouldCancel as it finds it
T_Reset_Keep ==
    /\ play.pc = "reset"
    /\ play' = [play EXCEPT !.pc = "open"]
    /\ UNCHANGED <<pendingItems, nextSequenceNumber, nextToPlay, item, g_isPlaying,
                   g_shouldCancel, hpc, playlog>>
    /\ PlayFrame

\* g_shouldCancel = false
T_Reset ==
    /\ play.pc = "reset"
    /\ g_shouldCancel' = FALSE
    /\ play' = [play EXCEPT !.pc = "open"]
    /\ UNCHANGED <<pendingItems, nextSequenceNumber, nextToPlay, item, g_isPlaying, hpc, playlog>>
    /\ PlayFrame

\* MCI open and play: either may fail, and then the wait loop is not entered
T_Open ==
    /\ play.pc = "open"
    /\ \E started \in BOOLEAN :
         play' = IF started THEN [pc |-> "loop", polls |-> 0] ELSE [play EXCEPT !.pc = "end"]
    /\ UNCHANGED <<pendingItems, nextSequenceNumber, nextToPlay, item, g_isPlaying,
                   g_shouldCancel, hpc, playlog>>
    /\ PlayFrame

\* while (!g_shouldCancel) { mode not playing: break; timeout: break; Sleep(50); }
T_Poll ==
    /\ play.pc = "loop"
    /\ IF g_shouldCancel
       THEN /\ play' = [play EXCEPT !.pc = "after"]
            /\ playlog' = [playlog EXCEPT !.cancelled = @ \cup {item.sequenceNumber}]
       ELSE /\ \E stillPlaying \in BOOLEAN :
                 play' = IF stillPlaying /\ play.polls < MaxPolls
                         THEN [play EXCEPT !.polls = @ + 1]
                         ELSE [play EXCEPT !.pc = "after"]
            /\ UNCHANGED playlog
    /\ UNCHANGED <<pendingItems, nextSequenceNumber, nextToPlay, item, g_isPlaying,
                   g_shouldCancel, hpc>>
    /\ PlayFrame

\* if (g_shouldCancel) stop; close
T_Close ==
    /\ play.pc = "after"
    /\ play' = [play EXCEPT !.pc = "end"]
    /\ UNCHANGED <<pendingItems, nextSequenceNumber, nextToPlay, item, g_isPlaying,
                   g_shouldCancel, hpc, playlog>>
    /\ PlayFrame

\* g_isPlaying = false, and PlayAudioFromMemory returns
T_End ==
    /\ play.pc = "end"
    /\ g_isPlaying' = FALSE
    /\ play' = [play EXCEPT !.pc = "remove"]
    /\ UNCHANGED <<pendingItems, nextSequenceNumber, nextToPlay, item, g_shouldCancel, hpc, playlog>>
    /\ PlayFrame

\* g_playbackQueue.Remove(item.sequenceNumber) after playback
T_Remove ==
    /\ play.pc = "remove"
    /\ Remove(item.sequenceNumber)
    /\ item' = NoItem
    /\ play' = [pc |-> "wait", polls |-> 0]
    /\ UNCHANGED <<nextSequenceNumber, g_isPlaying, g_shouldCancel, hpc, playlog>>
    /\ PlayFrame

\* PlayAudioFromMemory has set g_isPlaying for the item and its wait loop has not ended
BeforeLoopEnd == play.pc \in {"reset", "open", "loop"}

\* WM_HOTKEY arrives: if (g_isPlaying)
H_Check ==
    /\ hpc = "idle"
    /\ g_isPlaying
    /\ hpc' = "store"
    /\ UNCHANGED <<pendingItems, nextSequenceNumber, nextToPlay, item, g_isPlaying,
                   g_shouldCancel, play, playlog>>
    /\ PlayFrame

\* g_shouldCancel = true
H_Store ==
    /\ hpc = "store"
    /\ g_shouldCancel' = TRUE
    /\ hpc' = "idle"
    /\ playlog' = [playlog EXCEPT
                      !.setDuring = IF Playing THEN @ \cup {item.sequenceNumber} ELSE @,
                      !.asked = IF BeforeLoopEnd THEN @ \cup {item.sequenceNumber} ELSE @]
    /\ UNCHANGED <<pendingItems, nextSequenceNumber, nextToPlay, item, g_isPlaying, play>>
    /\ PlayFrame

PlayCoordinator ==
    \/ T_WaitForNextReady
    \/ T_Skip
    \/ T_Enter
    \/ T_Reset
    \/ T_Open
    \/ T_Poll
    \/ T_Close
    \/ T_End
    \/ T_Remove

PlayNext ==
    \/ T_AddRequest
    \/ T_MarkReady
    \/ T_MarkFailed
    \/ PlayCoordinator
    \/ H_Check
    \/ H_Store

PlaySpec == Init /\ [][PlayNext]_vars

\* the coordinator thread keeps running
FairPlaySpec == PlaySpec /\ WF_vars(PlayCoordinator)

\* ------------------------------------------------------------- mutexes
LockFrame ==
    UNCHANGED <<pipelineVars, cacheVars, keyCalls, fetchVars, qcall, playVars, aloneVars>>

Owned(m) == \E u \in LockThreads : m \in held[u]

\* the thread enters one of its code paths
L_Begin(t) ==
    /\ todo[t] = <<>>
    /\ \E path \in LockPaths(t) : todo' = [todo EXCEPT ![t] = path]
    /\ UNCHANGED held
    /\ LockFrame

\* std::mutex::lock: blocks while another thread owns the mutex; locking a mutex the
\* thread owns itself never returns either
L_Lock(t) ==
    /\ todo[t] # <<>>
    /\ Head(todo[t]).op = "lock"
    /\ ~Owned(Head(todo[t]).m)
    /\ held' = [held EXCEPT ![t] = @ \cup {Head(todo[t]).m}]
    /\ todo' = [todo EXCEPT ![t] = Tail(@)]
    /\ LockFrame

\* the end of the lock's scope
L_Unlock(t) ==
    /\ todo[t] # <<>>
    /\ Head(todo[t]).op = "unlock"
    /\ held' = [held EXCEPT ![t] = @ \ {Head(todo[t]).m}]
    /\ todo' = [todo EXCEPT ![t] = Tail(@)]
    /\ LockFrame

\* cv.wait(lock) unlocks the mutex and blocks
L_CvWait(t) ==
    /\ todo[t] # <<>>
    /\ Head(todo[t]).op = "wait"
    /\ held' = [held EXCEPT ![t] = @ \ {Head(todo[t]).m}]
    /\ todo' = [todo EXCEPT ![t] = Tail(@)]
    /\ LockFrame

LockNext ==
    \E t \in LockThreads :
        \/ L_Begin(t)
        \/ L_Lock(t)
        \/ L_Unlock(t)
        \/ L_CvWait(t)

LockSpec == Init /\ [][LockNext]_vars

\* ------------------------------------------------ FetchThreadPool, alone
\* A FetchThreadPool constructed with room for PoolPending tasks, its Enqueue called
\* with tasks numbered in the order of the calls, and its workers.
\* maxPendingTasks of this pool: with every worker busy and the queue full, one more
\* Enqueue is made
PoolPending == MaxPoolTasks - MaxThreads - 1

\* a WorkerLoop that keeps poolMutex while the task runs
LockedPositions_Running == {"running"}

\* the positions between two steps at which a worker holds poolMutex: none, the block
\* under the unique_lock is one step and task() runs after it has been left
LockedPositions == {}

\* lock_guard(poolMutex) in Enqueue can be taken
PoolMutexFree == \A w \in Workers : wpc[w] \notin LockedPositions

PoolFrame ==
    UNCHANGED <<cacheVars, keyCalls, fetchVars, qcall, playVars, lockVars, waitLoop,
                ttsPool, qlog>>

\* an Enqueue that puts the task at the front of the queue
X_Enqueue_PushFront ==
    /\ poolLog.next <= MaxPoolTasks
    /\ PoolMutexFree
    /\ initialized' = TRUE
    /\ created' = IF initialized THEN created ELSE created + MaxThreads
    /\ LET task == [seq |-> poolLog.next, text |-> "A"]
           started == IF initialized THEN wpc ELSE [w \in Workers |-> "ready"]
           waiting == {w \in Workers : started[w] = "waiting"}
       IN  IF Len(tasks) >= PoolPending
           THEN /\ wpc' = started
                /\ tasks' = tasks
                /\ poolLog' = [poolLog EXCEPT !.next = @ + 1]
           ELSE /\ tasks' = <<task>> \o tasks
                /\ wpc' \in IF waiting = {} THEN {started}
                             ELSE {[started EXCEPT ![w] = "ready"] : w \in waiting}
                /\ poolLog' = [poolLog EXCEPT !.next = @ + 1,
                                              !.accepted = Append(@, task.seq)]
    /\ UNCHANGED <<queueVars, stop, wtask, coordVars, producerVars, spc, histVars>>
    /\ PoolFrame

\* Enqueue(task): the startup on the first call, then the size check and
\* tasks.push(task), cv.notify_one() under poolMutex
X_Enqueue ==
    /\ poolLog.next <= MaxPoolTasks
    /\ PoolMutexFree
    /\ initialized' = TRUE
    /\ created' = IF initialized THEN created ELSE created + MaxThreads
    /\ LET task == [seq |-> poolLog.next, text |-> "A"]
           started == IF initialized THEN wpc ELSE [w \in Workers |-> "ready"]
           waiting == {w \in Workers : started[w] = "waiting"}
       IN  IF Len(tasks) >= PoolPending
           THEN /\ wpc' = started
                /\ tasks' = tasks
                /\ poolLog' = [poolLog EXCEPT !.next = @ + 1]
           ELSE /\ tasks' = Append(tasks, task)
                /\ wpc' \in IF waiting = {} THEN {started}
                             ELSE {[started EXCEPT ![w] = "ready"] : w \in waiting}
                /\ poolLog' = [poolLog EXCEPT !.next = @ + 1,
                                              !.accepted = Append(@, task.seq)]
    /\ UNCHANGED <<queueVars, stop, wtask, coordVars, producerVars, spc, histVars>>
    /\ PoolFrame

\* WorkerLoop: the block under poolMutex: wait, exit, or pop the front task
X_Acquire(w) ==
    /\ W_Acquire(w)
    /\ poolLog' = IF tasks' # tasks
                  THEN [poolLog EXCEPT !.taken = Append(@, Head(tasks).seq)]
                  ELSE poolLog
    /\ PoolFrame

\* WorkerLoop: task() runs and returns or throws, outside the lock; a wait wakes
X_Run(w) ==
    /\ \/ W_TaskDone(w)
       \/ W_TaskThrows(w)
       \/ W_SpuriousWake(w)
    /\ UNCHANGED poolLog
    /\ PoolFrame

PoolNext ==
    \/ X_Enqueue
    \/ \E w \in Workers : X_Acquire(w)
    \/ \E w \in Workers : X_Run(w)

PoolSpec == Init /\ [][PoolNext]_vars

\* ------------------------------------------------ the wait loop, alone
\* PlayAudioFromMemory from "play" on: the duration is read, the loop polls the flag,
\* the mode and the clock, and sleeps; the hotkey may set the flag at any moment.
\* Times are in milliseconds. elapsed stands for GetTickCount() - start, a DWORD
\* difference that is the time passed for any wait shorter than 2^32 ms.
GraceMs == 2000              \* duration + 2000
DefaultDurationMs == 5000    \* if (duration == 0) duration = 5000
PollMs == 50                 \* Sleep(50)

\* what atoi makes of the answer to "status length": 0 when there is no number in it
DetectedDurations == {0, 100, 1000}

\* "status mode" while the file plays, is paused, and after it has ended
Modes == {"playing", "paused", "stopped"}

\* how long a Sleep(50) lasts: the time asked for, or longer when the thread is not
\* scheduled at once
SleepTimes == {PollMs, 2 * PollMs}

WaitFrame ==
    UNCHANGED <<pipelineVars, cacheVars, keyCalls, fetchVars, qcall, hpc, play, playlog,
                lockVars, poolLog, ttsPool, qlog>>

\* g_isPlaying = true; g_shouldCancel = false; open and play succeed;
\* duration = atoi(durBuf); if (duration == 0) duration = 5000; start = GetTickCount()
Y_Begin ==
    /\ waitLoop.pc = "idle"
    /\ g_isPlaying' = TRUE
    /\ g_shouldCancel' = FALSE
    /\ \E detected \in DetectedDurations :
         waitLoop' = [pc |-> "loop",
                  duration |-> IF detected = 0 THEN DefaultDurationMs ELSE detected,
                  elapsed |-> 0, exit |-> "none"]
    /\ WaitFrame

\* a wait loop without the test of the clock
Y_Poll_NoTimeout ==
    /\ waitLoop.pc = "loop"
    /\ IF g_shouldCancel
       THEN waitLoop' = [waitLoop EXCEPT !.pc = "after", !.exit = "cancel"]
       ELSE \E mode \in Modes :
              IF mode # "playing" /\ mode # "paused"
              THEN waitLoop' = [waitLoop EXCEPT !.pc = "after", !.exit = "mode"]
              ELSE waitLoop' = [waitLoop EXCEPT !.pc = "sleep"]
    /\ UNCHANGED <<g_isPlaying, g_shouldCancel>>
    /\ WaitFrame

\* while (!g_shouldCancel) { if (mode != "playing" && mode != "paused") break;
\*                           if (GetTickCount() - start > duration + 2000) break; ...
Y_Poll ==
    /\ waitLoop.pc = "loop"
    /\ IF g_shouldCancel
       THEN waitLoop' = [waitLoop EXCEPT !.pc = "after", !.exit = "cancel"]
       ELSE \E mode \in Modes :
              IF mode # "playing" /\ mode # "paused"
              THEN waitLoop' = [waitLoop EXCEPT !.pc = "after", !.exit = "mode"]
              ELSE IF waitLoop.elapsed > waitLoop.duration + GraceMs
                   THEN waitLoop' = [waitLoop EXCEPT !.pc = "after", !.exit = "timeout"]
                   ELSE waitLoop' = [waitLoop EXCEPT !.pc = "sleep"]
    /\ UNCHANGED <<g_isPlaying, g_shouldCancel>>
    /\ WaitFrame

\* Sleep(50): the clock has moved on when the thread runs again
Y_Sleep ==
    /\ waitLoop.pc = "sleep"
    /\ \E t \in SleepTimes : waitLoop' = [waitLoop EXCEPT !.pc = "loop", !.elapsed = @ + t]
    /\ UNCHANGED <<g_isPlaying, g_shouldCancel>>
    /\ WaitFrame

\* if (g_shouldCancel) stop; close; g_isPlaying = false
Y_End ==
    /\ waitLoop.pc = "after"
    /\ g_isPlaying' = FALSE
    /\ waitLoop' = [waitLoop EXCEPT !.pc = "idle"]
    /\ UNCHANGED g_shouldCancel
    /\ WaitFrame

\* HotkeyWindowProc: if (g_isPlaying) g_shouldCancel = true
Y_Hotkey ==
    /\ g_isPlaying
    /\ g_shouldCancel' = TRUE
    /\ UNCHANGED <<g_isPlaying, waitLoop>>
    /\ WaitFrame

\* the thread that called PlayAudioFromMemory
WaitThread ==
    \/ Y_Poll
    \/ Y_Sleep
    \/ Y_End

WaitNext ==
    \/ Y_Begin
    \/ WaitThread
    \/ Y_Hotkey

WaitSpec == Init /\ [][WaitNext]_vars

\* the thread keeps running, and a Sleep returns
FairWaitSpec == WaitSpec /\ WF_vars(WaitThread)

\* ------------------------------------------------ TTSThreadPool, alone
\* The single-worker pool: Enqueue, the worker in WorkerLoop, and one thread that
\* calls Shutdown or ShutdownFast. queueMutex of the pool is held by the worker from
\* the evaluation of the wait predicate until it blocks in the wait or leaves the
\* critical section; Enqueue takes it for its push. stop is stored and the
\* condition variable notified without it.
MaxTtsTasks == 2             \* Enqueue calls made
TtsCapacity == 100           \* if (tasks.size() < 100)

TtsFrame ==
    UNCHANGED <<pipelineVars, cacheVars, keyCalls, fetchVars, qcall, playVars, lockVars,
                poolLog, waitLoop, qlog>>

\* the worker is inside its critical section
WorkerHoldsQueueMutex == ttsPool.wpc \in {"predFalse", "check"}

\* cv.notify_one(): the worker leaves the wait if it is blocked in it
TtsNotifyOne(pc) == IF pc = "blocked" THEN "top" ELSE pc

\* Enqueue: Initialize on first use, push under queueMutex unless 100 tasks wait, notify_one
V_Enqueue ==
    /\ ttsPool.enqueued < MaxTtsTasks
    /\ ~WorkerHoldsQueueMutex
    /\ LET started == IF ttsPool.initialized THEN ttsPool.wpc ELSE "top" IN
       IF ttsPool.tasks < TtsCapacity
       THEN ttsPool' = [ttsPool EXCEPT !.initialized = TRUE, !.enqueued = @ + 1,
                                       !.tasks = @ + 1, !.wpc = TtsNotifyOne(started)]
       ELSE ttsPool' = [ttsPool EXCEPT !.initialized = TRUE, !.enqueued = @ + 1,
                                       !.wpc = started]
    /\ TtsFrame

\* unique_lock, and the predicate of cv.wait: stop.load() || !tasks.empty()
V_Predicate ==
    /\ ttsPool.wpc = "top"
    /\ ttsPool' = [ttsPool EXCEPT !.wpc = IF ttsPool.stop \/ ttsPool.tasks > 0
                                           THEN "check" ELSE "predFalse"]
    /\ TtsFrame

\* the predicate was false: cv.wait releases queueMutex and blocks
V_Block ==
    /\ ttsPool.wpc = "predFalse"
    /\ ttsPool' = [ttsPool EXCEPT !.wpc = "blocked"]
    /\ TtsFrame

\* the wait may return without a notification; the predicate is evaluated again
V_SpuriousWake ==
    /\ ttsPool.wpc = "blocked"
    /\ ttsPool' = [ttsPool EXCEPT !.wpc = "top"]
    /\ TtsFrame

\* if (stop && tasks.empty()) break; if (!tasks.empty()) { pop; taskRunning = true; }
V_Take ==
    /\ ttsPool.wpc = "check"
    /\ ttsPool' = IF ttsPool.stop /\ ttsPool.tasks = 0
                  THEN [ttsPool EXCEPT !.wpc = "exited"]
                  ELSE IF ttsPool.tasks > 0
                       THEN [ttsPool EXCEPT !.tasks = @ - 1, !.taskRunning = TRUE,
                                            !.wpc = "run"]
                       ELSE [ttsPool EXCEPT !.wpc = "top"]
    /\ TtsFrame

\* task() returns or throws; taskRunning = false
V_Run ==
    /\ ttsPool.wpc = "run"
    /\ ttsPool' = [ttsPool EXCEPT !.taskRunning = FALSE, !.wpc = "top"]
    /\ TtsFrame

\* Shutdown or ShutdownFast: if (!initialized) return; stop.store(true)
V_ShutdownStore ==
    /\ ttsPool.spc = "idle"
    /\ IF ~ttsPool.initialized
       THEN ttsPool' = [ttsPool EXCEPT !.spc = "done"]
       ELSE \E call \in {"notify", "notifyFast"} :
              ttsPool' = [ttsPool EXCEPT !.stop = TRUE, !.spc = call]
    /\ TtsFrame

\* cv.notify_one()
V_ShutdownNotify ==
    /\ ttsPool.spc \in {"notify", "notifyFast"}
    /\ ttsPool' = [ttsPool EXCEPT !.wpc = TtsNotifyOne(@),
                                  !.spc = IF ttsPool.spc = "notify" THEN "poll" ELSE "detach"]
    /\ TtsFrame

\* Shutdown: while (taskRunning) { after 5 s: break; sleep 100 ms }
V_ShutdownPoll ==
    /\ ttsPool.spc = "poll"
    /\ \E timedOut \in BOOLEAN :
         ttsPool' = [ttsPool EXCEPT !.spc = IF ttsPool.taskRunning /\ ~timedOut
                                             THEN "poll" ELSE "join"]
    /\ TtsFrame

\* Shutdown: worker->join() returns when the worker has left WorkerLoop; the tasks
\* left in the queue are popped
V_ShutdownJoin ==
    /\ ttsPool.spc = "join"
    /\ ttsPool.wpc = "exited"
    /\ ttsPool' = [ttsPool EXCEPT !.tasks = 0, !.spc = "done"]
    /\ TtsFrame

\* ShutdownFast: worker->detach()
V_ShutdownDetach ==
    /\ ttsPool.spc = "detach"
    /\ ttsPool' = [ttsPool EXCEPT !.spc = "done"]
    /\ TtsFrame

\* the worker thread, but for wake-ups nothing causes
TtsWorker ==
    \/ V_Predicate
    \/ V_Block
    \/ V_Take
    \/ V_Run

\* the thread in Shutdown or ShutdownFast
TtsShutdown ==
    \/ V_ShutdownStore
    \/ V_ShutdownNotify
    \/ V_ShutdownPoll
    \/ V_ShutdownJoin
    \/ V_ShutdownDetach

TtsNext ==
    \/ V_Enqueue
    \/ TtsWorker
    \/ V_SpuriousWake
    \/ TtsShutdown

TtsSpec == Init /\ [][TtsNext]_vars

\* both threads keep running; a wait returns when it is notified
FairTtsSpec == TtsSpec /\ WF_vars(TtsWorker) /\ WF_vars(TtsShutdown)

\* ================================================================ properties
Range(s) == {s[i] : i \in DOMAIN s}
Last(s) == s[Len(s)]

\* the coordinator is inside a WaitForNextReady call
InsideWait == cpc \in {"w_lock", "w_find", "w_wait"}

\* C1: the items the coordinator obtains from WaitForNextReady, in the order it
\* obtains them, are 1, 2, 3, ...: submission order, whatever order the requests
\* were resolved in.
C1_PlaybackInSubmissionOrder ==
    returned = [i \in 1..Len(returned) |-> i]

\* both requests were resolved in reverse order and still came out 1, 2
C1_Witness ==
    /\ resolved = <<2, 1>>
    /\ returned = <<1, 2>>

\* C2: nextToPlay changes only by +1, and only in the coordinator's Remove of the
\* item it pointed at, which has then left the pending map; WaitForNextReady
\* returns the number nextToPlay points at and never a number it returned before,
\* so no number is skipped and none is returned twice.
C2_Step ==
    /\ nextToPlay' # nextToPlay =>
         /\ nextToPlay' = nextToPlay + 1
         /\ cpc \in {"got", "remove"}
         /\ cpc' = "loop"
         /\ item.sequenceNumber = nextToPlay
         /\ nextToPlay \notin DOMAIN pendingItems'
    /\ returned' # returned =>
         /\ returned' = Append(returned, nextToPlay)
         /\ nextToPlay \notin Range(returned)
         /\ returned # <<>> => nextToPlay = Last(returned) + 1

C2_NextToPlayAdvancesByOne == [][C2_Step]_vars

\* the pointer has advanced past both requests and each was returned once
C2_Witness ==
    /\ nextToPlay = 3
    /\ returned = <<1, 2>>

\* C3: WaitForNextReady returns an item only from a state in which the entry keyed
\* by nextToPlay exists and is ready (Ready or Failed); the item it returns is that
\* entry, so its sequence number is nextToPlay. Without such an entry it waits.
C3_Step ==
    cpc = "w_find" /\ cpc' # "w_find" =>
        IF nextToPlay \in DOMAIN pendingItems /\ pendingItems[nextToPlay].isReady
        THEN /\ cpc' = "got"
             /\ item' = pendingItems[nextToPlay]
             /\ item'.sequenceNumber = nextToPlay
        ELSE /\ cpc' = "w_wait"
             /\ returned' = returned
             /\ item' = item

C3_ReturnsOnlyNextToPlay == [][C3_Step]_vars

\* request 2 is already ready while the coordinator is handed request 1
C3_Witness ==
    /\ cpc = "got"
    /\ item.sequenceNumber = 1
    /\ nextToPlay = 1
    /\ 2 \in DOMAIN pendingItems
    /\ pendingItems[2].isReady

\* PlaybackQueue::Shutdown has stored the flag and issued its notify_all
QueueShutdownDone == shutdownRequested /\ spc \notin {"q_store", "q_notify"}

\* C4: a WaitForNextReady call that is in progress when Shutdown() runs, wherever it
\* stands between its shutdown check and its cv.wait, returns without a later
\* MarkReady / MarkFailed notification: once Shutdown() has stored the flag and
\* notified, no call is left blocked in cv.wait, where only such a notification
\* (or a spurious wakeup) could still wake it.
C4_ShutdownUnblocksWaiter ==
    QueueShutdownDone => cpc # "w_wait"

\* the same as a progress property, for FairSpec
C4_ShutdownUnblocksWaiterLive ==
    (shutdownRequested /\ InsideWait) ~> ~InsideWait

\* C5: once the shutdown flag is set, WaitForNextReady hands out no item and the
\* coordinator starts no playback.
C5_Step ==
    shutdownRequested => (returned' = returned /\ played' = played)

C5_NothingAfterShutdown == [][C5_Step]_vars

\* C6: absent shutdown, every request that got a sequence number is eventually
\* consumed by the coordinator: nextToPlay passes it.
C6_EveryRequestConsumed ==
    \A n \in 1..MaxRequests :
        (nextSequenceNumber > n) ~> (nextToPlay > n \/ spc # "idle")

\* C7: a Failed item is removed without the audio transport being invoked and the
\* coordinator goes on with its loop; playback is only ever started for items that
\* are not Failed, and in increasing sequence order.
C7_Step ==
    /\ (cpc = "got" /\ item.failed /\ cpc' # cpc) =>
         /\ cpc' = "loop"
         /\ played' = played
         /\ nextToPlay' = item.sequenceNumber + 1
    /\ played' # played =>
         /\ ~item.failed
         /\ played' = Append(played, item.sequenceNumber)
         /\ played # <<>> => Last(played) < item.sequenceNumber

C7_FailedItemsAreSkipped == [][C7_Step]_vars

\* request 1 failed and was skipped, request 2 is played after it
C7_Witness ==
    /\ returned = <<1, 2>>
    /\ played = <<2>>
    /\ cpc = "playing"

\* C8: a full queue does not block Enqueue; the request whose task was rejected is
\* marked Failed by ProcessTTSRequest, its task is neither queued nor run, and the
\* coordinator skips it: it is never played and, once ProcessTTSRequest has
\* returned, its entry is ready to be handed out (or already was).
C8_RejectedIsFailedAndSkipped ==
    /\ \A p \in Producers : ppc[p] = "enq_push" => ENABLED P_EnqueuePush(p)
    /\ \A n \in rejected :
         LET marking == \E p \in Producers : ppc[p] = "markfailed" /\ pseq[p] = n IN
         /\ n \notin Range(played)
         /\ \A i \in DOMAIN tasks : tasks[i].seq # n
         /\ \A w \in Workers : wtask[w].seq # n
         /\ marking => (n \in DOMAIN pendingItems /\ ~pendingItems[n].isReady)
         /\ ~marking =>
              IF n \in DOMAIN pendingItems
              THEN pendingItems[n].failed /\ pendingItems[n].isReady
              ELSE n \in Range(returned)
         /\ item.sequenceNumber = n => item.failed

\* a rejected request was skipped and the pointer moved past it
C8_Witness ==
    \E n \in rejected :
        /\ n \in Range(returned)
        /\ n \notin Range(played)
        /\ nextToPlay > n

\* C9: AddRequest hands out 1, 2, 3, ... in allocation order, no number twice, also
\* to callers that overlap; each call adds exactly one entry, Pending, under the
\* number it returns, and touches no other entry.
C9_Step ==
    /\ allocated' = [i \in 1..Len(allocated') |-> i]
    /\ \A p, q \in Producers : (p # q /\ pseq'[p] # 0) => pseq'[p] # pseq'[q]
    /\ allocated' # allocated =>
         LET s == Last(allocated') IN
         /\ Len(allocated') = Len(allocated) + 1
         /\ s \notin DOMAIN pendingItems
         /\ DOMAIN pendingItems' = DOMAIN pendingItems \cup {s}
         /\ pendingItems'[s].sequenceNumber = s
         /\ ~pendingItems'[s].isReady
         /\ ~pendingItems'[s].failed
         /\ \A k \in DOMAIN pendingItems : pendingItems'[k] = pendingItems[k]
         /\ \E p \in Producers :
              /\ ppc[p] = "add"
              /\ pseq'[p] = s
              /\ pendingItems'[s].text = ptext[p]

C9_SequenceNumbersUniqueIncreasing == [][C9_Step]_vars

\* two overlapping ProcessTTSRequest calls hold different numbers
C9_Witness ==
    /\ allocated = <<1, 2>>
    /\ pseq[1] # 0
    /\ pseq[2] # 0
    /\ pseq[1] # pseq[2]

\* C10: the queue of the fetch pool never holds more than maxPendingTasks tasks.
C10_QueueBounded == Len(tasks) <= MaxPendingTasks

\* the queue is full while another Enqueue is at its size check
C10_Witness ==
    /\ Len(tasks) = MaxPendingTasks
    /\ \E p \in Producers : ppc[p] = "enq_push"

\* C11: the locked part of Enqueue returns false and leaves the queue as it is
\* exactly when the queue holds maxPendingTasks tasks at that moment; otherwise it
\* returns true and the queue is the old one with the task appended. So after a
\* worker has taken a task from a full queue, the next Enqueue is accepted.
C11_Step ==
    \A p \in Producers :
        (ppc[p] = "enq_push" /\ ppc'[p] # "enq_push") =>
            IF Len(tasks) = MaxPendingTasks
            THEN /\ tasks' = tasks
                 /\ ppc'[p] = "markfailed"
            ELSE /\ tasks' = Append(tasks, [seq |-> pseq[p], text |-> ptext[p]])
                 /\ ppc'[p] = "idle"

C11_EnqueueAcceptsIffNotFull == [][C11_Step]_vars

\* task 1 filled the queue, a worker took it, and task 2 was then accepted
C11_Witness ==
    /\ \E w \in Workers : wpc[w] = "running" /\ wtask[w].seq = 1
    /\ Len(tasks) = MaxPendingTasks
    /\ {tasks[i].seq : i \in DOMAIN tasks} = 2..(MaxPendingTasks + 1)
    /\ rejected = {}

\* the task of request n is in the queue of the pool: Enqueue returned true for it
\* and no worker has taken it yet
Queued(n) == \E i \in DOMAIN tasks : tasks[i].seq = n

\* a worker takes a task: the head of the queue, never a task taken before, never a
\* task of a rejected Enqueue, and no two workers hold the same task
C12_TakeStep ==
    /\ executed' # executed =>
         /\ tasks # <<>>
         /\ Head(tasks).seq \notin executed
         /\ executed' = executed \cup {Head(tasks).seq}
         /\ tasks' = Tail(tasks)
         /\ ~Queued(Head(tasks).seq)'
    /\ (executed \cap rejected)' = {}
    /\ \A v, w \in Workers :
         (v # w /\ wtask'[v] # NoTask) => wtask'[v].seq # wtask'[w].seq

\* the safety half of C12: no task runs twice, no rejected task runs
C12_ExecutedAtMostOnce == [][C12_TakeStep]_vars

\* C12: every task for which Enqueue returned true is eventually taken from the
\* queue and run by a worker, also one enqueued after Shutdown was called; it is
\* run once, by one worker, and a task whose Enqueue returned false is never run.
C12_AcceptedTaskIsExecuted ==
    /\ C12_ExecutedAtMostOnce
    /\ \A n \in 1..MaxRequests : Queued(n) ~> (n \in executed)

\* workers that are inside WorkerLoop
LiveWorkers == {w \in Workers : wpc[w] \in {"ready", "waiting", "running"}}

\* C13: a task that throws does not end its worker. The step in which a worker
\* catches a task's exception leaves that worker at the top of its loop and the
\* set of live workers as it was; a worker leaves the loop only from the locked
\* block, on stop with an empty queue; so a worker that has caught an exception
\* is gone only if the pool was stopped.
C13_Step ==
    \A w \in Workers :
        /\ (wpc[w] = "running" /\ wtask[w].seq \in faulted' \ faulted) =>
             /\ wpc'[w] = "ready"
             /\ LiveWorkers' = LiveWorkers
             /\ tasks' = tasks
        /\ (wpc'[w] = "exited" /\ wpc[w] # "exited") =>
             /\ wpc[w] = "ready"
             /\ stop
             /\ tasks = <<>>
        /\ wpc'[w] = "exited" => stop'

C13_TaskFaultKeepsWorker == [][C13_Step]_vars

\* task 1 threw, a later task is running and no worker is gone
C13_Witness ==
    /\ 1 \in faulted
    /\ \E w \in Workers : wpc[w] = "running" /\ wtask[w].seq = 2
    /\ LiveWorkers = Workers
    /\ ~stop

\* FetchThreadPool::Shutdown has returned, and it found the pool started
PoolShutdownReturned == stop /\ spc \in {"detach", "done"}

C15_TeardownNeverWaits ==
    spc \notin {"idle", "done"} => ENABLED ShutdownThread

\* ------------------------------------------------------------------ C16
\* C16: a Get whose key was Put before and has not been evicted from the memory tier
\* since returns true with exactly the bytes of that Put, whatever SaveToDisk returned
\* to the Put.
C16_Step ==
    \A t \in CacheCallers, text \in CacheTexts :
        LET key == GenerateCacheKey(text, Server, Voice) IN
        (A_GetMemory(t, text) /\ key \in DOMAIN lastPut) =>
            ares' = [key |-> key, found |-> TRUE, data |-> lastPut[key]]

C16_PutGetRoundTrip == [][C16_Step]_vars

\* ------------------------------------------------------------------ C17
\* C17: in every reachable state the memory tier holds at most maxSize entries.
C17_MemoryTierBounded == Cardinality(DOMAIN cache) <= maxSize

\* ------------------------------------------------------------------ C18
\* the entries of c other than e are in d with their bytes and in their order of age
Survive(c, d, e) ==
    /\ DOMAIN c \ {e} \subseteq DOMAIN d
    /\ \A i \in DOMAIN c \ {e} :
         /\ d[i].data = c[i].data
         /\ \A j \in DOMAIN c \ {e} :
              (c[i].timestamp < c[j].timestamp) <=> (d[i].timestamp < d[j].timestamp)

\* C18: a step (of Put or of the promotion in Get) that inserts a key the memory tier
\* does not hold, into a tier that holds entries and is at capacity, evicts exactly one
\* entry, the one with the oldest timestamp, and keeps every other entry; the new key
\* becomes the most recent one. Inserting capacity + 1 distinct keys is capacity
\* insertions below capacity followed by one such step.
C18_Step ==
    \A k \in CacheKeys :
        (/\ k \notin DOMAIN cache
         /\ k \in DOMAIN cache'
         /\ DOMAIN cache # {}
         /\ CacheFull(cache, maxSize)) =>
            \E e \in DOMAIN cache :
                /\ \A j \in DOMAIN cache : cache[e].timestamp <= cache[j].timestamp
                /\ DOMAIN cache' = (DOMAIN cache \ {e}) \cup {k}
                /\ Survive(cache, cache', e)
                /\ \A j \in DOMAIN cache' \ {k} : cache'[j].timestamp < cache'[k].timestamp

C18_EvictsExactlyTheOldest == [][C18_Step]_vars

\* capacity + 1 distinct keys were Put into a tier of MaxCapacity entries: the first one,
\* whose file is on disk, is gone from memory and the others are there
C18_Witness ==
    /\ maxSize = MaxCapacity
    /\ MaxCapacity >= 2
    /\ Cardinality(DOMAIN cache) = MaxCapacity
    /\ \E k \in DOMAIN disk \ DOMAIN cache : TRUE
    /\ DOMAIN lastPut = DOMAIN cache
    /\ DOMAIN disk = CacheKeys

\* ------------------------------------------------------------------ C19
\* C19 as stated: the Get of a key that is not in the memory tier and whose file was
\* written finds the file and goes on to the promotion with the bytes of the file.
C19_LoadStep ==
    \A t \in CacheCallers :
        (apc[t] = "g_disk" /\ apc'[t] # "g_disk" /\ akey[t] \in DOMAIN disk) =>
            /\ apc'[t] = "g_promote"
            /\ adata'[t] = disk[akey[t]]

C19_ReadStep ==
    \A t \in CacheCallers :
        (apc[t] = "g_disk" /\ apc'[t] = "g_promote") =>
            /\ akey[t] \in DOMAIN disk
            /\ adata'[t] = disk[akey[t]]
            /\ UNCHANGED <<cache, disk>>

\* the promotion: Get returns true with the bytes read, and the memory tier holds them
\* as the most recent entry, so that a lookup in the next state is a hit
C19_PromoteStep ==
    \A t \in CacheCallers :
        (apc[t] = "g_promote" /\ apc'[t] = "idle") =>
            /\ ares' = [key |-> akey[t], found |-> TRUE, data |-> adata[t]]
            /\ akey[t] \in DOMAIN cache'
            /\ cache'[akey[t]].data = adata[t]
            /\ \A j \in DOMAIN cache' : cache'[j].timestamp <= cache'[akey[t]].timestamp
            /\ (akey[t] \notin DOMAIN cache /\ DOMAIN cache # {} /\ CacheFull(cache, maxSize))
                 => Cardinality(DOMAIN cache') = Cardinality(DOMAIN cache)
            /\ ~CacheFull(cache, maxSize) => DOMAIN cache' = DOMAIN cache \cup {akey[t]}

\* the file of a key holds the bytes of the last Put of the key whose SaveToDisk succeeded:
\* Get, Put and SetMaxSize remove no file, and a file changes only in a Put of its key
C19_DiskStep ==
    /\ DOMAIN disk \subseteq DOMAIN disk'
    /\ \A k \in DOMAIN disk' :
         (k \notin DOMAIN disk \/ disk'[k] # disk[k]) =>
             k \in DOMAIN lastPut' /\ lastPut'[k] = disk'[k]

Triple(c) == <<c.text, c.server, c.voice>>

\* C20: the key is a function of the triple, and two calls whose triples differ in any
\* component hash different strings and return different keys.
C20_KeyIsInjectiveInTheTriple ==
    \A i \in DOMAIN keyCalls, j \in DOMAIN keyCalls :
        /\ Triple(keyCalls[i]) = Triple(keyCalls[j]) => keyCalls[i].key = keyCalls[j].key
        /\ Triple(keyCalls[i]) # Triple(keyCalls[j]) =>
             /\ keyCalls[i].combined # keyCalls[j].combined
             /\ keyCalls[i].key # keyCalls[j].key

\* ------------------------------------------------------------------ C21
\* the attempts FetchTTSAudioWithRetry has made
Attempts == Len(ftask.outcomes)

\* the request did not go out, or the connection failed while the body was read
TransportFailure(o) == o.kind = "nosend" \/ (o.kind = "response" /\ o.code = 200 /\ o.broken)

\* a response that reports an error
ErrorResponse(o) == o.kind = "response" /\ o.code # 200

\* FetchTTSAudioWithRetry has returned
Fetched == ftask.pc = "fetched"

\* C21: FetchTTSAudioWithRetry makes at most maxRetries (3) attempts; a 4xx response on
\* attempt j ends the loop with exactly j attempts made; a transport-level failure or
\* an error response that is not 4xx is followed by a further attempt as long as the
\* budget is not used up.
C21_RetriesByFailureClass ==
    /\ Attempts <= DefaultRetries
    /\ Fetched =>
         \A j \in 1..Attempts :
            LET o == ftask.outcomes[j] IN
            /\ (ErrorResponse(o) /\ IsClientError(o.code)) => Attempts = j
            /\ (TransportFailure(o) \/ (ErrorResponse(o) /\ ~IsClientError(o.code))) =>
                 (Attempts > j \/ j = DefaultRetries)

\* ------------------------------------------------------------------ C22
\* the attempt delivered the whole response of the service
Succeeded(o) == o.kind = "response" /\ o.code = 200 /\ ~o.broken

SuccessfulAttempts == {j \in 1..Attempts : Succeeded(ftask.outcomes[j])}

\* FetchAndEnqueueForPlayback has reported what FetchTTSAudio returned
Reported == ftask.pc = "idle" /\ ftask.mark.kind # "none" /\ ~ftask.hit /\ Attempts > 0

\* C22: FetchTTSAudioWithRetry returns the payload of the first successful attempt,
\* which is its last attempt; it returns an empty result when no attempt succeeded;
\* FetchAndEnqueueForPlayback answers an empty result with MarkFailed and any other
\* result with MarkReady carrying that payload.
C22_FirstSuccessIsReturned ==
    /\ (Fetched \/ Reported) =>
         IF SuccessfulAttempts # {}
         THEN /\ SuccessfulAttempts = {Attempts}
              /\ ftask.audioData = ftask.outcomes[Attempts].read
         ELSE ftask.audioData = NoAudio
    /\ Reported =>
         ftask.mark = IF ftask.audioData = NoAudio
                      THEN [kind |-> "failed", audio |-> NoAudio]
                      ELSE [kind |-> "ready", audio |-> ftask.audioData]

\* ------------------------------------------------------------------ C24
\* sanitizedText.empty() after SanitizeText: nothing but NULs in the text
SanitizesToEmpty(text) == \A i \in 1..Len(text) : text[i] = NUL

\* C24: a text that SanitizeText empties is never fetched: its run makes no attempt
\* and ends in MarkFailed.
C24_EmptyAfterSanitizingIsNotFetched ==
    (SanitizedText(ftask.text) = <<>> \/ SanitizesToEmpty(ftask.text)) =>
        /\ Attempts = 0
        /\ ftask.pc \in {"idle", "get", "sanitize"}
        /\ ftask.mark.kind # "ready"
        /\ (ftask.pc = "idle" /\ ftask # NoFetch) => ftask.mark.kind = "failed"

\* a text of NULs only was looked up, sanitized and reported as failed
C24_Witness ==
    /\ ftask.pc = "idle"
    /\ ftask.text = <<NUL, NUL>>
    /\ ftask.sanitizedText = <<>>
    /\ ftask.mark.kind = "failed"
    /\ Attempts = 0
    /\ fcache # NoEntry

\* ------------------------------------------------------------------ C25
\* C25: every sequence number that is a key of the pending map is greater than or
\* equal to nextToPlay.
C25_PendingKeysNotBelowNextToPlay == \A k \in DOMAIN pendingItems : k >= nextToPlay

\* the pointer has advanced and the request it points at is pending and resolved
C25_Witness ==
    /\ nextToPlay = 2
    /\ 2 \in DOMAIN pendingItems
    /\ pendingItems[2].isReady

\* ------------------------------------------------------------------ C26
\* the coordinator calls Remove(item.sequenceNumber): after a failed item, or after
\* playback
RemoveStep == cpc \in {"got", "remove"} /\ cpc' = "loop"

Readiness(it) == IF it.failed THEN "Failed" ELSE IF it.isReady THEN "Ready" ELSE "Pending"

\* C27: an entry that is Ready or Failed stays as it is: no later MarkReady or
\* MarkFailed for its sequence number changes its state or its audio payload, so the
\* readiness of an entry changes once only, from Pending.
C27_ResolvedEntriesDoNotChange ==
    [][\A k \in DOMAIN pendingItems \cap DOMAIN pendingItems' :
          Readiness(pendingItems[k]) # "Pending" =>
             /\ Readiness(pendingItems'[k]) = Readiness(pendingItems[k])
             /\ pendingItems'[k].audioData = pendingItems[k].audioData]_vars

\* ------------------------------------------------------------------ C28
\* C28: MarkReady or MarkFailed with a sequence number that is not a key of the pending
\* map changes nothing: the map (no entry is created), nextToPlay and
\* nextSequenceNumber stay as they are.
C28_MarkOfUnknownIsNoOp ==
    [][(qcall'.op \in {"MarkReady", "MarkFailed"} /\ qcall'.seq \notin DOMAIN pendingItems) =>
          UNCHANGED <<pendingItems, nextToPlay, nextSequenceNumber>>]_vars

\* MarkFailed was called for the request the consumer holds, which has left the map,
\* while another request is pending
C28_Witness ==
    /\ qcall.op = "MarkFailed"
    /\ item # NoItem
    /\ qcall.seq = item.sequenceNumber
    /\ qcall.seq \notin DOMAIN pendingItems
    /\ pendingItems # <<>>

\* ------------------------------------------------------------------ C30
\* C30: no worker exists before the first Enqueue; workers are created only by a
\* step of Enqueue, maxThreads of them and once; every Enqueue that has passed the
\* startup part finds the pool started, however many calls raced for the startup.
C30_PoolStartsOnceInEnqueue ==
    /\ [](created = IF initialized THEN MaxThreads ELSE 0)
    /\ [](~initialized => \A w \in Workers : wpc[w] = "none")
    /\ [](\A p \in Producers : ppc[p] \in {"enq_push", "markfailed"} => initialized)
    /\ [][created' # created =>
            /\ \E p \in Producers : ppc[p] = "enq_init" /\ ppc'[p] = "enq_push"
            /\ created = 0
            /\ created' = MaxThreads]_vars

\* two first calls raced: both saw initialized false, one has started the pool and the
\* other is about to take poolMutex for its second look
C30_Witness ==
    /\ ppc[1] = "enq_init"
    /\ ppc[2] = "enq_push"
    /\ initialized
    /\ created = MaxThreads
    /\ \A w \in Workers : wpc[w] # "none"

\* ------------------------------------------------------------------ C23
\* the sequence numbers PlayAudioFromMemory has been called for
PlaybackStarted == {playlog.started[i] : i \in DOMAIN playlog.started}

\* the handler sets the flag
CancelStep == hpc = "store" /\ hpc' = "idle" /\ g_shouldCancel'

\* C23: a cancel flag set while item k is playing ends the playback of item k only.
\*   - a wait loop that ends on the flag is the loop of the item that was playing when
\*     the flag was set, never the loop of a later item;
\*   - setting the flag changes nothing in the queue: no entry is dropped, the order
\*     stays, and the items are handed to playback in sequence order, every item below
\*     nextToPlay having been played or skipped as failed;
\*   - the cancelled item k is removed as after any playback: nextToPlay passes k;
\*   - item k + 1, once it is Ready at nextToPlay, is played.
C23_CancelEndsOnlyThePlayingItem ==
    /\ [](playlog.cancelled \subseteq playlog.setDuring)
    /\ [][CancelStep => UNCHANGED <<pendingItems, nextSequenceNumber, nextToPlay, item>>]_vars
    /\ [](\A i \in DOMAIN playlog.started, j \in DOMAIN playlog.started :
             i < j => playlog.started[i] < playlog.started[j])
    /\ [](\A n \in 1..(nextToPlay - 1) : n \in PlaybackStarted \/ n \in playlog.failed)
    /\ \A k \in 1..MaxRequests :
         /\ (Playing /\ item.sequenceNumber = k /\ g_shouldCancel) ~> (nextToPlay > k)
         /\ (nextToPlay = k /\ k \in DOMAIN pendingItems
                /\ Readiness(pendingItems[k]) = "Ready") ~> (k \in PlaybackStarted)

\* item 1 was cancelled while it played, and item 2 is playing: its wait loop has
\* polled the flag and goes on
C23_Witness ==
    /\ playlog.cancelled = {1}
    /\ playlog.setDuring = {1}
    /\ playlog.started = <<1, 2>>
    /\ play.pc = "loop"
    /\ play.polls > 0
    /\ item.sequenceNumber = 2
    /\ nextToPlay = 2

\* ------------------------------------------------------------------ C29
\* the thread is about to lock a mutex
Requests(t) == todo[t] # <<>> /\ Head(todo[t]).op = "lock"

\* C29: no thread owns two of the pipeline locks at once; a thread that asks for a
\* pipeline lock owns none, so that no thread waits for a lock while another
\* thread waits for a lock of its own: no cycle of lock waits.
C29_AtMostOnePipelineLock ==
    \A t \in LockThreads :
        /\ Cardinality(held[t] \cap PipelineLocks) <= 1
        /\ (Requests(t) /\ Head(todo[t]).m \in PipelineLocks) => held[t] \cap PipelineLocks = {}

\* all four pipeline locks are owned at once, by four threads
C29_Witness ==
    /\ held["producer"] = {"queueMutex"}
    /\ held["shutdown"] = {"poolMutex"}
    /\ held["worker1"] = {"cacheMutex"}
    /\ held["coordinator"] = {"g_audioMutex"}
    /\ Requests("worker2")

\* ------------------------------------------------------------------ C31
\* C31: the workers take the tasks in the order in which Enqueue accepted them: the
\* tasks taken so far are, in order, the first tasks accepted, and the queue holds
\* the rest in the order of their acceptance.
C31_TasksAreTakenInAcceptanceOrder ==
    /\ Len(poolLog.taken) <= Len(poolLog.accepted)
    /\ poolLog.taken = SubSeq(poolLog.accepted, 1, Len(poolLog.taken))
    /\ [i \in DOMAIN tasks |-> tasks[i].seq] =
          SubSeq(poolLog.accepted, Len(poolLog.taken) + 1, Len(poolLog.accepted))

\* two tasks waited in the queue together behind a running one, and both workers have
\* since taken one
C31_Witness ==
    /\ poolLog.accepted = <<1, 2, 3>>
    /\ poolLog.taken = <<1, 2>>
    /\ Len(tasks) = 1
    /\ \E w \in Workers : wpc[w] = "running" /\ wtask[w].seq = 2
    /\ \E w \in Workers : wpc[w] = "running" /\ wtask[w].seq = 1
\* ------------------------------------------------------------------ C32
\* the memory tier after the next eviction block has run for a Put or a promotion of
\* key k2, as the code runs it on the tier c
AfterNextEviction(c, max, k2) ==
    {EvictAndStore(c, max, victim, k2, <<"x">>, Now(c)) : victim \in Oldest(c)}

\* a step of Get that hits the memory tier for the key of text
MemoryHit(t, text) ==
    /\ GenerateCacheKey(text, Server, Voice) \in DOMAIN cache
    /\ A_GetMemory(t, text)

\* C32: a Get that hits the memory tier returns the bytes of the entry and sets its
\* timestamp to now, later than the timestamp of every other entry, so that the order
\* of eviction is that of the last access: the entry just read, the other entries
\* having been accessed before, is not the one the next eviction removes.
C32_Step ==
    \A t \in CacheCallers, text \in CacheTexts :
        MemoryHit(t, text) =>
            LET key == GenerateCacheKey(text, Server, Voice) IN
            /\ ares' = [key |-> key, found |-> TRUE, data |-> cache[key].data]
            /\ DOMAIN cache' = DOMAIN cache
            /\ \A j \in DOMAIN cache' \ {key} :
                   /\ cache'[j].timestamp < cache'[key].timestamp
                   /\ cache'[j].data = cache[j].data
                   /\ \A i \in DOMAIN cache' \ {key} :
                          (cache[i].timestamp < cache[j].timestamp)
                              <=> (cache'[i].timestamp < cache'[j].timestamp)
            /\ DOMAIN cache' # {key} =>
                   /\ key \notin Oldest(cache')
                   /\ \A k2 \in CacheKeys : \A c \in AfterNextEviction(cache', maxSize, k2) :
                          key \in DOMAIN c /\ (k2 # key => c[key].data = cache[key].data)

C32_GetRefreshesTheTimestamp == [][C32_Step]_vars

\* the memory tier is at capacity with two entries; the one put first has been read by
\* Get since the other was put, and it is now the newer of the two
C32_Witness ==
    \E k \in DOMAIN cache, j \in DOMAIN cache :
        /\ k # j
        /\ Cardinality(DOMAIN cache) = maxSize
        /\ ares.found /\ ares.key = k
        /\ cache[j].timestamp < cache[k].timestamp
        /\ Oldest(cache) = {j}

\* ------------------------------------------------------------------ C33
\* the attempts FetchTTSAudioWithRetry has begun: those that ended and the one in its body
AttemptsBegun == Len(ftask.outcomes) + (IF ftask.pc = "attempt" THEN 1 ELSE 0)

InWaitLoop == waitLoop.pc \in {"loop", "sleep"}

\* C34: the wait loop always terminates. With the mode reported as playing for ever and
\* the flag never set, the loop ends once the time since its start exceeds the duration
\* detected (5000 ms when none was detected) plus 2000 ms: the loop exits by the clock
\* only then, it is never seen running later than one Sleep after that moment, and a
\* loop that is running leads to one that has ended.
C34_WaitLoopTerminates ==
    /\ [](waitLoop.pc # "idle" => waitLoop.duration \in (DetectedDurations \ {0}) \cup {5000})
    /\ [](waitLoop.exit = "timeout" => waitLoop.elapsed > waitLoop.duration + 2000)
    /\ [](InWaitLoop => waitLoop.elapsed <= waitLoop.duration + 2000 + 2 * PollMs)
    /\ (InWaitLoop ~> waitLoop.pc = "after")

\* the duration was not detected, the mode was playing or paused at every poll and
\* the flag was never set: the loop has ended by the clock, more than 7000 ms after
\* its start
C34_Witness ==
    /\ waitLoop.pc = "after"
    /\ waitLoop.exit = "timeout"
    /\ waitLoop.duration = 5000
    /\ waitLoop.elapsed > 7000
    /\ ~g_shouldCancel

\* ------------------------------------------------------------------ C35
\* C35: a cancel request of the hotkey handler, made on seeing g_isPlaying true, is
\* never lost: the playback that is in progress or just starting when the handler
\* sets g_shouldCancel sees the flag in its wait loop and stops, so that a wait loop
\* that has ended for an item the handler asked to cancel has ended on the flag.
C35_CancelRequestIsNeverLost ==
    (play.pc = "after" /\ item.sequenceNumber \in playlog.asked)
        => item.sequenceNumber \in playlog.cancelled

\* ------------------------------------------------------------------ C36
\* C36: a Remove(seq) with seq different from nextToPlay leaves nextToPlay as it is and
\* deletes no entry whose sequence number is nextToPlay or greater; the entry at
\* nextToPlay, not yet consumed, is never deleted by it.
C36_RemoveOfOtherKeepsPending ==
    [][(qcall'.op = "Remove" /\ qcall'.seq # nextToPlay) =>
          /\ nextToPlay' = nextToPlay
          /\ \A k \in DOMAIN pendingItems :
                 k >= nextToPlay => k \in DOMAIN pendingItems' /\ pendingItems'[k] = pendingItems[k]]_vars

\* ------------------------------------------------------------------ C37
\* C37: once Shutdown or ShutdownFast has set stop, the worker leaves WorkerLoop when
\* its queue is empty, however the store of stop and the notification fall between
\* the worker's evaluation of the wait predicate and its wait; the join in Shutdown
\* therefore returns.
C37_WorkerLeavesAfterStop ==
    /\ ttsPool.stop ~> ttsPool.wpc = "exited"
    /\ ttsPool.spc = "join" ~> ttsPool.spc = "done"

\* ------------------------------------------------------------------ C38
\* WaitForNextReady returns an item
ReturnsItem == item = NoItem /\ item' # NoItem

\* C38: the item WaitForNextReady returns for sequence number n carries the text that
\* was passed to the AddRequest that returned n and, when MarkReady was called for n,
\* the audio bytes and the cache path passed to MarkReady for n; an item no MarkReady
\* was called for carries no audio and no path. Nothing passed for one sequence number
\* is delivered under another, in whatever order the requests are resolved.
C38_Step ==
    ReturnsItem =>
        LET n == item'.sequenceNumber IN
        /\ n = nextToPlay
        /\ n \in DOMAIN qlog.text
        /\ item'.text = qlog.text[n]
        /\ item'.isReady
        /\ IF n \in DOMAIN qlog.audio
           THEN item'.audioData = qlog.audio[n]
           ELSE item'.failed /\ item'.audioData = NoAudio
        /\ item'.cachePath = IF n \in DOMAIN qlog.path THEN qlog.path[n] ELSE <<>>

C38_ItemCarriesItsOwnData == [][C38_Step]_vars

\* two requests with different texts were resolved with different audio and paths;
\* the first was consumed, and the consumer holds the second with its own text, audio
\* and path
C38_Witness ==
    /\ nextToPlay = 2
    /\ qcall.op = "WaitForNextReady"
    /\ item.sequenceNumber = 2
    /\ item.text = "B"
    /\ item.audioData = Audio("A")
    /\ item.cachePath = CachePath("A")
    /\ ~item.failed

\* ------------------------------------------------------------------ C39
\* the key a Put has just stored: its entry is the most recent one
Newest(c) == CHOOSE k \in DOMAIN c : \A j \in DOMAIN c : c[j].timestamp <= c[k].timestamp

\* C39: a Put for a key the memory tier already holds replaces the bytes and the
\* timestamp of that entry and evicts no other entry, also when the tier is at
\* capacity: the tier holds the same keys after it, the other entries as they were.
C39_Step ==
    \A t \in CacheCallers :
        (A_Put(t) /\ ~crashed' /\ Newest(cache') \in DOMAIN cache) =>
            /\ DOMAIN cache' = DOMAIN cache
            /\ Cardinality(DOMAIN cache') = Cardinality(DOMAIN cache)
            /\ Survive(cache, cache', Newest(cache'))

C39_PutOfPresentKeyEvictsNothing == [][C39_Step]_vars

\* ------------------------------------------------------------------ C40
\* a call of Enqueue is made
EnqueueStep == poolLog'.next = poolLog.next + 1

\* Enqueue returns true: the task was pushed
ReturnsTrue == poolLog'.accepted # poolLog.accepted

\* every worker is inside a task
AllBusy == \A w \in Workers : wpc[w] = "running"

====
